---- MODULE Spec2Model ----
(***************************************************************************)
(* ROIDS (Region Of Interest Designation System): the annotation editing   *)
(* engine of src/app.rs (History, RoidsApp and its per-frame update), the  *)
(* annotation model of src/models and the panels of src/ui.                *)
(*                                                                         *)
(* Rust's Option<T> is a sequence of length 0 (None) or 1 (Some(x)); Vec   *)
(* indices are kept 0-based as in the source and converted on access.      *)
(***************************************************************************)
EXTENDS Integers, Sequences, FiniteSets, TLC

VARIABLES
    current_tool,            \* RoidsApp.current_tool : Tool
    project,                 \* RoidsApp.project : Option<ProjectData>
    selected_annotation,     \* RoidsApp.selected_annotation : Option<usize>
    image_texture,           \* RoidsApp.image_texture : Option<TextureHandle>
    image_size,              \* RoidsApp.image_size : Option<(u32, u32)>
    in_progress_annotation,  \* RoidsApp.in_progress_annotation : Option<Annotation>
    annotation_counter,      \* RoidsApp.annotation_counter : usize
    dragging_vertex,         \* RoidsApp.dragging_vertex : Option<(usize, usize)>
    history,                 \* RoidsApp.history : History
    image_loader,            \* RoidsApp.image_loader : Option<Receiver<..>> (channel id)
    loading_message,         \* RoidsApp.loading_message : Option<String>
    channel,                 \* the message buffered in the live Receiver, if any
    workers,                 \* the background threads that have not sent yet,
                             \* each with what it has read of its file so far
    load_seq,                \* number of channels created so far
    last_action,             \* the handler that made the last step, and its case
    drag_origin,             \* the collection when the drag began, while only
                             \* DragVertex / StopDragging and then one undo
                             \* have followed its start
    hist_arg,                \* History driver: the argument of the last call
    hist_ret,                \* History driver: what the last undo/redo returned
    hist_got,                \* History driver: the entries undo returned since the last push
    hist_cleared,            \* History driver: the redo entries the last push discarded
    disk,                    \* the annotation files written by Export Annotations
    codec,                   \* codec driver: the project given, the text written
                             \* and what reading it back returned
    probe,                   \* Annotation driver: the annotation under test, the
                             \* last method called on it and what it returned
    drag_target,             \* the name of the annotation that was at the index
                             \* of the drag when the drag began, until it stops
    trail                    \* the undo and redo steps that acted since the last
                             \* other step, the latest two of them: which it was
                             \* and the collection and the stacks it started from

vars == <<current_tool, project, selected_annotation, image_texture, image_size,
          in_progress_annotation, annotation_counter, dragging_vertex, history,
          image_loader, loading_message, channel, workers, load_seq,
          last_action, drag_origin, hist_arg, hist_ret, hist_got,
          hist_cleared, disk, codec, probe, drag_target, trail>>

appvars == <<current_tool, project, selected_annotation, image_texture, image_size,
             in_progress_annotation, annotation_counter, dragging_vertex,
             image_loader, loading_message, channel, workers, load_seq,
             drag_origin, disk, codec, probe, drag_target, trail>>

(***************************************************************************)
(* Bounds of the model.                                                    *)
(***************************************************************************)
\* AddVertex is not offered once the in-progress annotation has this many vertices.
MaxVertices == 3
\* A commit is not offered once the project holds this many annotations.
MaxAnnotations == 2
\* A snapshot-pushing event is not offered once the undo stack holds this many entries.
MaxHistory == 2
\* Loads (open image / load annotations) started in one run.
MaxLoads == 2
\* A commit is not offered once annotation_counter has reached this value.
MaxCounter == MaxAnnotations + 1
\* Create-then-edit session: a snapshot-pushing event is not offered once the
\* undo stack holds this many entries.
MaxLifoHistory == 3
\* Session of several loads: a snapshot-pushing event is not offered once the
\* undo stack holds this many entries.
MaxReloadHistory == 1
\* History driver, arbitrary calls: entries the two stacks hold together.
MaxStack == 3
\* History driver, capacity run: snapshots pushed (two more than max_size).
MaxPushes == 52
\* Codec driver: annotations of a project, and vertices of an annotation.
MaxCodecAnnotations == 2
MaxCodecVertices == 3
\* The driver of the Annotation methods builds at most this many vertices.
MaxProbeVertices == 3

(***************************************************************************)
(* Option<T>                                                               *)
(***************************************************************************)
None == <<>>
Some(x) == <<x>>
IsSome(o) == o # <<>>
IsNone(o) == o = <<>>
Unwrap(o) == o[1]

\* Vec helpers, 0-based like the source.
At(v, i) == v[i + 1]
Front(v) == SubSeq(v, 1, Len(v) - 1)
Last(v) == v[Len(v)]
\* Vec::remove(i): drops element i, keeps the order of the others.
VecRemove(v, i) == SubSeq(v, 1, i) \o SubSeq(v, i + 2, Len(v))

(***************************************************************************)
(* f64.  A natural number of any size is the sequence of its digits in     *)
(* base 2^15, least significant first, without leading zeros (zero is the  *)
(* empty sequence).  An f64 is its sign, its significand and its binary    *)
(* exponent: the value is m * 2^e, where m has exactly 53 bits (normal     *)
(* numbers), or fewer with e = -1074 (subnormal numbers), or is zero with  *)
(* e = 0.  An infinity has no significand and the exponent 1024.  NaN is   *)
(* not modelled.  Every operation rounds its exact result to the nearest   *)
(* f64, to the even significand when two are equally near (IEEE 754).      *)
(* A loop over the digits of a number is written as a recursion over the   *)
(* two halves of its range, so that its depth stays small.                 *)
(***************************************************************************)
LimbBits == 15
Limb == 2 ^ LimbBits

Min(a, b) == IF a <= b THEN a ELSE b
Max(a, b) == IF a >= b THEN a ELSE b

\* TRUE, once the value is computed: a loop tests its state before it goes on.
Computed(st) == st = st

\* What a table computed beforehand holds for key, or the value computed on
\* the spot for a key the table does not hold.
table_or(table, key, computed) == IF key \in DOMAIN table THEN table[key] ELSE computed

big_limb(a, i) == IF i <= Len(a) THEN a[i] ELSE 0

\* a without its leading zeros.
big_trim(a) ==
    IF \A i \in 1..Len(a) : a[i] = 0 THEN <<>>
    ELSE SubSeq(a, 1, CHOOSE i \in 1..Len(a) :
                          a[i] # 0 /\ \A j \in (i + 1)..Len(a) : a[j] = 0)

\* A number below 2^31.
big_of(n) == big_trim(<<n % Limb, (n \div Limb) % Limb, n \div (Limb * Limb)>>)

RECURSIVE big_add_fold(_, _, _, _, _)
big_add_fold(a, b, lo, hi, st) ==
    IF ~Computed(st) \/ lo > hi THEN st
    ELSE IF lo = hi
    THEN [s |-> Append(st.s, (big_limb(a, lo) + big_limb(b, lo) + st.c) % Limb),
          c |-> (big_limb(a, lo) + big_limb(b, lo) + st.c) \div Limb]
    ELSE big_add_fold(a, b, (lo + hi) \div 2 + 1, hi,
                      big_add_fold(a, b, lo, (lo + hi) \div 2, st))

big_carried(st) == IF st.c = 0 THEN st.s ELSE Append(st.s, st.c)

\* a + b
big_add(a, b) ==
    big_carried(big_add_fold(a, b, 1, Max(Len(a), Len(b)), [s |-> <<>>, c |-> 0]))

RECURSIVE big_sub_fold(_, _, _, _, _)
big_sub_fold(a, b, lo, hi, st) ==
    IF ~Computed(st) \/ lo > hi THEN st
    ELSE IF lo = hi
    THEN [s |-> Append(st.s, (a[lo] - big_limb(b, lo) - st.c + Limb) % Limb),
          c |-> IF a[lo] - big_limb(b, lo) - st.c < 0 THEN 1 ELSE 0]
    ELSE big_sub_fold(a, b, (lo + hi) \div 2 + 1, hi,
                      big_sub_fold(a, b, lo, (lo + hi) \div 2, st))

\* a - b, for a >= b
big_sub(a, b) == big_trim(big_sub_fold(a, b, 1, Len(a), [s |-> <<>>, c |-> 0]).s)

RECURSIVE big_mul_small_fold(_, _, _, _, _)
big_mul_small_fold(a, k, lo, hi, st) ==
    IF ~Computed(st) \/ lo > hi THEN st
    ELSE IF lo = hi
    THEN [s |-> Append(st.s, (a[lo] * k + st.c) % Limb),
          c |-> (a[lo] * k + st.c) \div Limb]
    ELSE big_mul_small_fold(a, k, (lo + hi) \div 2 + 1, hi,
                            big_mul_small_fold(a, k, lo, (lo + hi) \div 2, st))

\* a * k, for k <= 2^15
big_mul_small(a, k) ==
    IF k = 0 THEN <<>>
    ELSE big_carried(big_mul_small_fold(a, k, 1, Len(a), [s |-> <<>>, c |-> 0]))

\* a * 2^15
big_shift_limb(a) == IF a = <<>> THEN <<>> ELSE <<0>> \o a

RECURSIVE big_mul_fold(_, _, _, _, _)
\* The digits hi down to lo of b, multiplied into the product so far.
big_mul_fold(a, b, hi, lo, prod) ==
    IF ~Computed(prod) \/ lo > hi THEN prod
    ELSE IF lo = hi THEN big_add(big_shift_limb(prod), big_mul_small(a, b[lo]))
    ELSE big_mul_fold(a, b, (lo + hi) \div 2, lo,
                      big_mul_fold(a, b, hi, (lo + hi) \div 2 + 1, prod))

\* a * b
big_mul(a, b) == IF a = <<>> THEN <<>> ELSE big_mul_fold(a, b, Len(b), 1, <<>>)

RECURSIVE big_div_small_fold(_, _, _, _, _)
big_div_small_fold(a, d, hi, lo, st) ==
    IF ~Computed(st) \/ lo > hi THEN st
    ELSE IF lo = hi
    THEN [q |-> <<(st.r * Limb + a[lo]) \div d>> \o st.q, r |-> (st.r * Limb + a[lo]) % d]
    ELSE big_div_small_fold(a, d, (lo + hi) \div 2, lo,
                            big_div_small_fold(a, d, hi, (lo + hi) \div 2 + 1, st))

\* Quotient and remainder of a by d, for 0 < d <= 2^15.
big_div_small(a, d) == big_div_small_fold(a, d, Len(a), 1, [q |-> <<>>, r |-> 0])

\* The number of bits of a.
big_bits(a) ==
    IF a = <<>> THEN 0
    ELSE LimbBits * (Len(a) - 1)
           + (CHOOSE b \in 1..LimbBits : 2 ^ (b - 1) <= a[Len(a)] /\ a[Len(a)] < 2 ^ b)

\* a * 2^k, and the integer part of a / 2^k.
big_shl(a, k) ==
    IF a = <<>> THEN <<>>
    ELSE [i \in 1..(k \div LimbBits) |-> 0] \o big_mul_small(a, 2 ^ (k % LimbBits))
big_shr(a, k) ==
    big_trim(big_div_small(SubSeq(a, k \div LimbBits + 1, Len(a)), 2 ^ (k % LimbBits)).q)

\* -1, 0 or 1 as a is below, equal to or above b.
big_cmp(a, b) ==
    IF Len(a) # Len(b) THEN (IF Len(a) < Len(b) THEN -1 ELSE 1)
    ELSE IF a = b THEN 0
    ELSE IF a[CHOOSE i \in 1..Len(a) : a[i] # b[i] /\ \A j \in (i + 1)..Len(a) : a[j] = b[j]]
              < b[CHOOSE i \in 1..Len(a) : a[i] # b[i] /\ \A j \in (i + 1)..Len(a) : a[j] = b[j]]
    THEN -1 ELSE 1

RECURSIVE big_div_digit(_, _, _, _)
\* The largest d below 2^15 with b * d <= r, found bit by bit.
big_div_digit(b, r, bit, d) ==
    IF bit < 0 THEN d
    ELSE IF big_cmp(big_mul_small(b, d + 2 ^ bit), r) <= 0
    THEN big_div_digit(b, r, bit - 1, d + 2 ^ bit)
    ELSE big_div_digit(b, r, bit - 1, d)

big_div_step(b, q, r, d) ==
    [q |-> <<d>> \o q, r |-> big_sub(r, big_mul_small(b, d))]

RECURSIVE big_div_fold(_, _, _, _, _)
\* Long division: the digits hi down to lo of a are brought down one by one.
big_div_fold(a, b, hi, lo, st) ==
    IF ~Computed(st) \/ lo > hi THEN st
    ELSE IF lo = hi
    THEN big_div_step(b, st.q, big_trim(<<a[lo]>> \o st.r),
                      IF big_cmp(big_trim(<<a[lo]>> \o st.r), b) < 0 THEN 0
                      ELSE big_div_digit(b, big_trim(<<a[lo]>> \o st.r), LimbBits - 1, 0))
    ELSE big_div_fold(a, b, (lo + hi) \div 2, lo,
                      big_div_fold(a, b, hi, (lo + hi) \div 2 + 1, st))

big_div_trim(st) == [q |-> big_trim(st.q), r |-> st.r]

\* Quotient and remainder of a by b, for b # 0.
big_div(a, b) == big_div_trim(big_div_fold(a, b, Len(a), 1, [q |-> <<>>, r |-> <<>>]))

RECURSIVE big_pow10(_)
\* 10^k
big_pow10(k) ==
    IF k = 0 THEN <<1>>
    ELSE IF k % 2 = 1 THEN big_mul_small(big_pow10(k - 1), 10)
    ELSE big_mul(big_pow10(k \div 2), big_pow10(k \div 2))

RECURSIVE big_of_digits_fold(_, _, _, _)
big_of_digits_fold(ds, lo, hi, n) ==
    IF ~Computed(n) \/ lo > hi THEN n
    ELSE IF lo = hi THEN big_add(big_mul_small(n, 10), big_of(ds[lo]))
    ELSE big_of_digits_fold(ds, (lo + hi) \div 2 + 1, hi,
                            big_of_digits_fold(ds, lo, (lo + hi) \div 2, n))

\* The number a string of decimal digits denotes.
big_of_digits(ds) == big_of_digits_fold(ds, 1, Len(ds), <<>>)

RECURSIVE big_digits_fold(_, _, _)
\* At most 2^depth more decimal digits of st.a, the least significant first.
big_digits_fold(depth, st, stop) ==
    IF ~Computed(st) \/ st.a = <<>> THEN st
    ELSE IF depth = 0
    THEN [a |-> big_trim(big_div_small(st.a, 10).q),
          ds |-> <<big_div_small(st.a, 10).r>> \o st.ds]
    ELSE big_digits_fold(depth - 1, big_digits_fold(depth - 1, st, stop), stop)

\* The decimal digits of a, most significant first; none for zero.
big_digits(a) == big_digits_fold(12, [a |-> a, ds |-> <<>>], 0).ds

MantBits == 53
MinExp == 0 - 1074
InfExp == 1024

f64_zero(neg) == [neg |-> neg, m |-> <<>>, e |-> 0]
f64_inf(neg) == [neg |-> neg, m |-> <<>>, e |-> InfExp]
is_infinite(x) == x.e = InfExp
is_zero(x) == x.m = <<>> /\ x.e = 0

\* The f64 of a significand of at most 53 bits and its exponent.
f64_pack(neg, m, e) ==
    IF m = <<>> THEN f64_zero(neg)
    ELSE IF e + big_bits(m) > InfExp THEN f64_inf(neg)
    ELSE [neg |-> neg, m |-> m, e |-> e]

\* The quotient of a shift, one higher when the bits shifted out are more
\* than half a unit, or exactly half and the quotient is odd.
f64_round_up(q, c, sticky) ==
    IF c > 0 \/ (c = 0 /\ (sticky \/ (q # <<>> /\ q[1] % 2 = 1)))
    THEN big_add(q, <<1>>) ELSE q

f64_round_carry(neg, q, e) ==
    IF big_bits(q) > MantBits THEN f64_pack(neg, big_shr(q, 1), e + 1)
    ELSE f64_pack(neg, q, e)

f64_round_shift(neg, m, e, s, q, sticky) ==
    f64_round_carry(neg,
                    f64_round_up(q, big_cmp(big_sub(m, big_shl(q, s)), big_shl(<<1>>, s - 1)),
                                 sticky),
                    e + s)

f64_round_by(neg, m, e, s, sticky) ==
    IF s <= 0 THEN f64_pack(neg, big_shl(m, 0 - s), e + s)
    ELSE f64_round_shift(neg, m, e, s, big_shr(m, s), sticky)

\* The f64 nearest to m * 2^e, or to a value above it by less than 2^e when
\* sticky is set (m has 55 bits or more then).
f64_round(neg, m, e, sticky) ==
    IF m = <<>> THEN f64_zero(neg)
    ELSE f64_round_by(neg, m, e, Max(big_bits(m) - MantBits, MinExp - e), sticky)

f64_neg(x) == [x EXCEPT !.neg = ~@]

\* a * b
f64_mul(a, b) ==
    IF is_infinite(a) \/ is_infinite(b) THEN f64_inf(a.neg # b.neg)
    ELSE f64_round(a.neg # b.neg, big_mul(a.m, b.m), a.e + b.e, FALSE)

f64_round_div(neg, qr, e) == f64_round(neg, qr.q, e, qr.r # <<>>)

\* The f64 nearest to num * 2^e / den: the quotient is taken with k more bits.
f64_of_ratio(neg, num, den, e, k) ==
    f64_round_div(neg, big_div(big_shl(num, k), den), e - k)

\* a / b, for a finite a and a finite b that is not zero
f64_div(a, b) ==
    IF is_zero(a) THEN f64_zero(a.neg # b.neg)
    ELSE f64_of_ratio(a.neg # b.neg, a.m, b.m, a.e - b.e,
                      MantBits + 3 + big_bits(b.m) - big_bits(a.m))

f64_add_aligned(a, b, am, bm, e) ==
    IF a.neg = b.neg THEN f64_round(a.neg, big_add(am, bm), e, FALSE)
    ELSE IF big_cmp(am, bm) = 0 THEN f64_zero(FALSE)
    ELSE IF big_cmp(am, bm) > 0 THEN f64_round(a.neg, big_sub(am, bm), e, FALSE)
    ELSE f64_round(b.neg, big_sub(bm, am), e, FALSE)

\* a + b
f64_add(a, b) ==
    IF is_infinite(a) THEN a
    ELSE IF is_infinite(b) THEN b
    ELSE IF is_zero(a) /\ is_zero(b) THEN f64_zero(a.neg /\ b.neg)
    ELSE IF is_zero(a) THEN b
    ELSE IF is_zero(b) THEN a
    ELSE f64_add_aligned(a, b, big_shl(a.m, a.e - Min(a.e, b.e)),
                         big_shl(b.m, b.e - Min(a.e, b.e)), Min(a.e, b.e))

\* a - b
f64_sub(a, b) == f64_add(a, f64_neg(b))

\* The position of the highest bit; an infinity is above every number.
f64_top(x) == IF is_infinite(x) THEN InfExp + 1 ELSE x.e + big_bits(x.m)

\* -1, 0 or 1 as |a| is below, equal to or above |b|.
f64_cmp_abs(a, b) ==
    IF f64_top(a) # f64_top(b) THEN (IF f64_top(a) < f64_top(b) THEN -1 ELSE 1)
    ELSE big_cmp(a.m, b.m)

\* partial_cmp: -1 (Less), 0 (Equal) or 1 (Greater); the two zeros are equal.
f64_cmp(a, b) ==
    IF is_zero(a) /\ is_zero(b) THEN 0
    ELSE IF is_zero(a) THEN (IF b.neg THEN 1 ELSE -1)
    ELSE IF is_zero(b) THEN (IF a.neg THEN -1 ELSE 1)
    ELSE IF a.neg # b.neg THEN (IF a.neg THEN -1 ELSE 1)
    ELSE IF a.neg THEN 0 - f64_cmp_abs(a, b)
    ELSE f64_cmp_abs(a, b)

f64_lt(a, b) == f64_cmp(a, b) < 0
f64_le(a, b) == f64_cmp(a, b) <= 0
f64_gt(a, b) == f64_cmp(a, b) > 0

\* u64 as f64
u64_as_f64(n) == f64_round(FALSE, n, 0, FALSE)

\* The f64 nearest to digits * 10^exp10: a literal of the source, and what
\* str::parse::<f64> returns.  Above 10^310 it is an infinity and below
\* 10^-330 a zero.
f64_of_decimal(neg, digits, exp10) ==
    IF digits = <<>> THEN f64_zero(neg)
    ELSE IF exp10 > 310 THEN f64_inf(neg)
    ELSE IF exp10 + (big_bits(digits) * 30103) \div 100000 + 1 < 0 - 330 THEN f64_zero(neg)
    ELSE IF exp10 >= 0 THEN f64_round(neg, big_mul(digits, big_pow10(exp10)), 0, FALSE)
    ELSE f64_of_ratio(neg, digits, big_pow10(0 - exp10), 0,
                      Max(0, MantBits + 3 + big_bits(big_pow10(0 - exp10)) - big_bits(digits)))

\* f64::MAX
F64_MAX == [neg |-> FALSE, m |-> big_sub(big_shl(<<1>>, MantBits), <<1>>), e |-> 971]

\* A literal of the source with a decimal point: n / 10^scale, n an integer.
f64_literal(n, scale) ==
    f64_of_decimal(n < 0, big_of(IF n < 0 THEN 0 - n ELSE n), 0 - scale)

(***************************************************************************)
(* models/annotation.rs                                                    *)
(***************************************************************************)
Point_new(x, y) == [x |-> x, y |-> y]

\* Point::new(x, y) of two literals with two decimal places, in hundredths.
Hundredths(x, y) == Point_new(f64_literal(x, 2), f64_literal(y, 2))

Polygon == "Polygon"
Line == "Line"
AnnotationType == {Polygon, Line}

Annotation_new(name, annotation_type) ==
    [name |-> name, annotation_type |-> annotation_type, vertices |-> <<>>]

\* A vertex put in front of the others.
add_vertex_front(a, point) == [a EXCEPT !.vertices = <<point>> \o @]

add_vertex(a, point) == [a EXCEPT !.vertices = Append(@, point)]

update_vertex(a, index, new_position) ==
    IF index < Len(a.vertices)
    THEN [a EXCEPT !.vertices[index + 1] = new_position]
    ELSE a

\* A removal that drops the last vertex whatever the index.
remove_vertex_pops(a, index) ==
    IF index < Len(a.vertices)
    THEN [a EXCEPT !.vertices = SubSeq(@, 1, Len(@) - 1)]
    ELSE a

\* remove_vertex: the annotation it leaves, and the value it returns.
remove_vertex(a, index) ==
    IF index < Len(a.vertices)
    THEN [a EXCEPT !.vertices = SubSeq(@, 1, index) \o SubSeq(@, index + 2, Len(@))]
    ELSE a
remove_vertex_returns(a, index) == index < Len(a.vertices)

\* update_vertex: the value it returns.
update_vertex_returns(a, index) == index < Len(a.vertices)

is_closed(a) == a.annotation_type = Polygon

vertex_count(a) == Len(a.vertices)

(***************************************************************************)
(* models/project.rs                                                       *)
(***************************************************************************)
ProjectData_new(media_file, frame_width, frame_height) ==
    [media_file |-> media_file, frame_width |-> frame_width,
     frame_height |-> frame_height, annotations |-> <<>>]

(***************************************************************************)
(* app.rs: History                                                         *)
(***************************************************************************)
DefaultMaxSize == 50

History_new ==
    [undo_stack |-> <<>>, redo_stack |-> <<>>, max_size |-> DefaultMaxSize]

\* Not clearing the redo stack.
History_push_keeps_redo(h, annotations) ==
    LET pushed == Append(h.undo_stack, annotations)
        capped == IF Len(pushed) > h.max_size THEN Tail(pushed) ELSE pushed
    IN  [h EXCEPT !.undo_stack = capped]

\* Dropping the newest entry on overflow instead of the oldest.
History_push_drops_newest(h, annotations) ==
    LET pushed == Append(h.undo_stack, annotations)
        capped == IF Len(pushed) > h.max_size THEN Front(pushed) ELSE pushed
    IN  [h EXCEPT !.undo_stack = capped, !.redo_stack = <<>>]

\* Save current state before making a change.
History_push(h, annotations) ==
    LET pushed == Append(h.undo_stack, annotations)
        capped == IF Len(pushed) > h.max_size THEN Tail(pushed) ELSE pushed
    IN  [h EXCEPT !.undo_stack = capped, !.redo_stack = <<>>]

\* Pushing the popped state, not `current`, onto the redo stack.
History_undo_saves_previous(h, current) ==
    IF h.undo_stack # <<>>
    THEN [h   |-> [h EXCEPT !.undo_stack = Front(@),
                            !.redo_stack = Append(@, Last(h.undo_stack))],
          ret |-> Some(Last(h.undo_stack))]
    ELSE [h |-> h, ret |-> None]

\* Pushing `current` onto the redo stack before looking at the undo stack.
History_undo_eager(h, current) ==
    IF h.undo_stack # <<>>
    THEN [h   |-> [h EXCEPT !.undo_stack = Front(@),
                            !.redo_stack = Append(@, current)],
          ret |-> Some(Last(h.undo_stack))]
    ELSE [h |-> [h EXCEPT !.redo_stack = Append(@, current)], ret |-> None]

\* Taking the oldest undo entry instead of the newest.
History_undo_oldest(h, current) ==
    IF h.undo_stack # <<>>
    THEN [h   |-> [h EXCEPT !.undo_stack = Tail(@),
                            !.redo_stack = Append(@, current)],
          ret |-> Some(Head(h.undo_stack))]
    ELSE [h |-> h, ret |-> None]

\* Undo: the new History and the returned Option<Vec<Annotation>>.
History_undo(h, current) ==
    IF h.undo_stack # <<>>
    THEN [h   |-> [h EXCEPT !.undo_stack = Front(@),
                            !.redo_stack = Append(@, current)],
          ret |-> Some(Last(h.undo_stack))]
    ELSE [h |-> h, ret |-> None]

\* Taking the oldest redo entry instead of the newest.
History_redo_oldest(h, current) ==
    IF h.redo_stack # <<>>
    THEN [h   |-> [h EXCEPT !.redo_stack = Tail(@),
                            !.undo_stack = Append(@, current)],
          ret |-> Some(Head(h.redo_stack))]
    ELSE [h |-> h, ret |-> None]

\* Redo: the new History and the returned Option<Vec<Annotation>>.
History_redo(h, current) ==
    IF h.redo_stack # <<>>
    THEN [h   |-> [h EXCEPT !.redo_stack = Front(@),
                            !.undo_stack = Append(@, current)],
          ret |-> Some(Last(h.redo_stack))]
    ELSE [h |-> h, ret |-> None]

can_undo(h) == h.undo_stack # <<>>
can_redo(h) == h.redo_stack # <<>>

(***************************************************************************)
(* io/serialization.rs, JSON.  A file's text is the sequence of its        *)
(* lines; a line is its indentation and its lexemes: punctuation, quoted   *)
(* strings, plain (unquoted) words and numbers.  Strings are atomic, their *)
(* escapes are not modelled.  A number is its digits before and after the  *)
(* point, with an exponent or without: the writer produces them from the   *)
(* f64 and the reader computes the f64 from them.                          *)
(***************************************************************************)
Punct(c) == [k |-> c]
Str(s) == [k |-> "str", s |-> s]
Plain(s) == [k |-> "plain", s |-> s]
\* "12.5" is Num(<<1, 2>>, <<5>>) and "12" is Num(<<1, 2>>, <<>>).
Num(int, frac) == [k |-> "num", int |-> int, frac |-> frac]
\* A number with an exponent: "1.5e-7" is Exp(Num(<<1>>, <<5>>), TRUE, <<7>>).
\* An "E" reads as "e" and an exponent with a plus sign as one without.
Exp(num, neg, e) == [k |-> "exp", of |-> num, neg |-> neg, e |-> e]
\* A minus sign written right before a number: "-5".
Neg(num) == [k |-> "neg", of |-> num]
TextLine(indent, toks) == [indent |-> indent, toks |-> toks]

RECURSIVE Digits(_)
\* itoa: the decimal digits of n, most significant first.
Digits(n) == IF n < 10 THEN <<n>> ELSE Append(Digits(n \div 10), n % 10)

RECURSIVE FromDigits(_)
\* The number a digit string denotes.
FromDigits(ds) ==
    IF ds = <<>> THEN 0 ELSE 10 * FromDigits(Front(ds)) + Last(ds)

\* The ryu crate.  Of the decimals that read back as x it writes one with
\* the fewest digits, the nearest to x among those.
\* x >= 10^t, for a finite x above zero.
f64_ge_pow10(x, t) ==
    big_cmp(big_mul(big_shl(x.m, Max(x.e, 0)), big_pow10(Max(0 - t, 0))),
            big_shl(big_pow10(Max(t, 0)), Max(0 - x.e, 0))) >= 0

\* floor(log10(2^n)), or one less.
log10_pow2(n) == IF n >= 0 THEN (n * 30102) \div 100000
                 ELSE 0 - (((0 - n) * 30103) \div 100000) - 1

\* kk with 10^(kk-1) <= x < 10^kk.
f64_decimal_point_from(x, est) ==
    IF f64_ge_pow10(x, est + 2) THEN est + 3
    ELSE IF f64_ge_pow10(x, est + 1) THEN est + 2
    ELSE est + 1
f64_decimal_point(x) == f64_decimal_point_from(x, log10_pow2(x.e + big_bits(x.m) - 1))

\* x * 10^s as a quotient and a remainder, and twice the remainder against
\* the divisor.
f64_scaled_by(qr, den) == [q |-> qr.q, half |-> big_cmp(big_shl(qr.r, 1), den)]
f64_scaled(x, s) ==
    f64_scaled_by(big_div(big_mul(big_shl(x.m, Max(x.e, 0)), big_pow10(Max(s, 0))),
                          big_shl(big_pow10(Max(0 - s, 0)), Max(0 - x.e, 0))),
                  big_shl(big_pow10(Max(0 - s, 0)), Max(0 - x.e, 0)))

\* c * 10^(-s) reads as x.
reads_as(x, c, s) == f64_of_decimal(x.neg, c, 0 - s) = x

\* The decimal c * 10^(-s) nearest to x among those that read as x, none when
\* neither of the two around x does.
nearest_decimal_of(x, s, sc, down, up) ==
    IF down /\ up
    THEN (IF sc.half < 0 \/ (sc.half = 0 /\ (sc.q = <<>> \/ sc.q[1] % 2 = 0))
          THEN Some(sc.q) ELSE Some(big_add(sc.q, <<1>>)))
    ELSE IF down THEN Some(sc.q)
    ELSE IF up THEN Some(big_add(sc.q, <<1>>))
    ELSE None
nearest_decimal_at(x, s, sc) ==
    nearest_decimal_of(x, s, sc, sc.q # <<>> /\ reads_as(x, sc.q, s),
                       reads_as(x, big_add(sc.q, <<1>>), s))
nearest_decimal(x, s) == nearest_decimal_at(x, s, f64_scaled(x, s))

RECURSIVE shortest_length(_, _, _, _)
\* The least number of digits in lo..hi of a decimal that reads as x.
shortest_length(x, kk, lo, hi) ==
    IF lo >= hi THEN lo
    ELSE IF IsSome(nearest_decimal(x, (lo + hi) \div 2 - kk))
    THEN shortest_length(x, kk, lo, (lo + hi) \div 2)
    ELSE shortest_length(x, kk, (lo + hi) \div 2 + 1, hi)

RECURSIVE strip_zeros(_)
\* Digits without their trailing zeros, and the number of zeros taken off.
strip_zeros(d) ==
    IF Len(d.digits) > 1 /\ d.digits[Len(d.digits)] = 0
    THEN strip_zeros([digits |-> SubSeq(d.digits, 1, Len(d.digits) - 1), k |-> d.k + 1])
    ELSE d

\* d2d: the shortest decimal digits * 10^k that reads as x, the nearest to x
\* of that length.
d2d_of(x, kk, n) ==
    strip_zeros([digits |-> big_digits(Unwrap(nearest_decimal(x, n - kk))), k |-> kk - n])
d2d_at(x, kk) == d2d_of(x, kk, shortest_length(x, kk, 1, 17))
d2d(x) == d2d_at(x, f64_decimal_point(x))

Zeros(n) == [i \in 1..n |-> 0]

\* ryu's layout of the digits: plain up to 16 integer digits and down to
\* 0.0001, with an exponent beyond.
ryu_layout(digits, k, kk) ==
    IF 0 <= k /\ kk <= 16 THEN Num(digits \o Zeros(k), <<0>>)
    ELSE IF 0 < kk /\ kk <= 16
    THEN Num(SubSeq(digits, 1, kk), SubSeq(digits, kk + 1, Len(digits)))
    ELSE IF 0 - 5 < kk /\ kk <= 0 THEN Num(<<0>>, Zeros(0 - kk) \o digits)
    ELSE Exp(Num(<<digits[1]>>, Tail(digits)), kk - 1 < 0,
             Digits(IF kk - 1 < 0 THEN 1 - kk ELSE kk - 1))

ryu_digits(d) == ryu_layout(d.digits, d.k, Len(d.digits) + d.k)

format_abs(x) == IF is_zero(x) THEN Num(<<0>>, <<0>>) ELSE ryu_digits(d2d(x))

with_sign(neg, tok) == IF neg THEN Neg(tok) ELSE tok

\* ryu::Buffer::format_finite: the sign first.
format_finite(x) == with_sign(x.neg, format_abs(x))

\* The coordinates of the points of this model: 0.38120423768821243, which
\* takes 17 digits, 0.0000001, which is written with an exponent, and the
\* short decimals.
LongCoordinate ==
    f64_of_decimal(FALSE, big_of_digits(<<3, 8, 1, 2, 0, 4, 2, 3, 7, 6, 8, 8, 2, 1, 2, 4, 3>>),
                   0 - 17)
SmallCoordinate == f64_literal(1, 7)
Coordinates ==
    {f64_literal(n, 2) : n \in {0, 1, 10, 20, 30, 40, 0 - 50, 100, 126, 200, 300}}
    \cup {LongCoordinate, SmallCoordinate}

\* What format_finite writes for each of them, as an explicit table.
Formatted == [x \in Coordinates |-> format_finite(x)] @@ <<>>

\* serde_json and serde_yaml write a finite f64 with ryu.
format_f64(x) == table_or(Formatted, x, format_finite(x))

\* serde_json writes a u32 with itoa.
format_u32(n) == Num(Digits(n), <<>>)

\* #[serde(rename_all = "lowercase")] on AnnotationType.
type_name(t) == IF t = Polygon THEN "polygon" ELSE "line"

RECURSIVE Concat(_)
\* The sequences of a sequence, one after the other.
Concat(seqs) ==
    IF seqs = <<>> THEN <<>>
    ELSE IF Len(seqs) = 1 THEN seqs[1]
    ELSE LET half == Len(seqs) \div 2
         IN  Concat(SubSeq(seqs, 1, half)) \o Concat(SubSeq(seqs, half + 1, Len(seqs)))

\* serde_json's PrettyFormatter.  A value is laid out as the lines it takes
\* at nesting depth d, two spaces a level: a scalar is one line; a non-empty
\* array or object is its opening bracket, its entries one level deeper, a
\* comma ending each but the last, and its closing bracket on a line of its
\* own; an empty one stays "[]" or "{}" on one line.
json_scalar(tok, d) == <<TextLine(2 * d, <<tok>>)>>

with_comma(block) ==
    [block EXCEPT ![Len(block)].toks = Append(@, Punct(","))]

json_container(open, close, entries, d) ==
    IF entries = <<>> THEN <<TextLine(2 * d, <<Punct(open), Punct(close)>>)>>
    ELSE <<TextLine(2 * d, <<Punct(open)>>)>>
         \o Concat([i \in 1..Len(entries) |->
                      IF i < Len(entries) THEN with_comma(entries[i])
                      ELSE entries[i]])
         \o <<TextLine(2 * d, <<Punct(close)>>)>>

json_array(items, d) == json_container("[", "]", items, d)

\* "name": value, the value starting on the line of its key.
json_field(name, block) ==
    [block EXCEPT ![1].toks = <<Str(name), Punct(":")>> \o @]

\* A struct: its fields in declaration order.
json_struct(fields, d) ==
    json_container("{", "}",
                   [i \in 1..Len(fields) |-> json_field(fields[i][1], fields[i][2])],
                   d)

\* Both coordinates of a Point, as they are written.
format_point(p) == [c \in {"x", "y"} |-> format_f64(p[c])]

json_coordinates(w, d) ==
    json_struct(<< <<"x", json_scalar(w.x, d + 1)>>,
                   <<"y", json_scalar(w.y, d + 1)>> >>, d)

json_point(p, d) == json_coordinates(format_point(p), d)

json_annotation(a, d) ==
    json_struct(<< <<"name", json_scalar(Str(a.name), d + 1)>>,
                   <<"type", json_scalar(Str(type_name(a.annotation_type)), d + 1)>>,
                   <<"vertices",
                     json_array([i \in 1..Len(a.vertices) |->
                                   json_point(a.vertices[i], d + 2)], d + 1)>> >>,
                d)

\* export_json: serde_json::to_string_pretty(data), the text written to path.
export_json(data) ==
    json_struct(<< <<"media_file", json_scalar(Str(data.media_file), 1)>>,
                   <<"frame_width", json_scalar(format_u32(data.frame_width), 1)>>,
                   <<"frame_height", json_scalar(format_u32(data.frame_height), 1)>>,
                   <<"annotations",
                     json_array([i \in 1..Len(data.annotations) |->
                                   json_annotation(data.annotations[i], 2)], 1)>> >>,
                0)

\* The reader.  parse_value reads one value starting at lexeme i and says
\* where it stopped; a value is a string, a number with or without a minus
\* sign, one of the literals true, false and null, an array of values or an
\* object of members.
ParseFail == [ok |-> FALSE]
Parsed(v, i) == [ok |-> TRUE, v |-> v, i |-> i]

\* The digits of a number: an integer part that is "0" or starts with
\* another digit, and the fraction, if any.
json_digits(tok) ==
    /\ tok.k = "num"
    /\ tok.int # <<>>
    /\ Len(tok.int) > 1 => tok.int[1] # 0

\* A number without its sign: digits, and an exponent of at least one
\* digit or none.
json_number(tok) ==
    \/ json_digits(tok)
    \/ tok.k = "exp" /\ json_digits(tok.of) /\ tok.e # <<>>

\* A value that is one lexeme.
json_scalar_read(tok) ==
    \/ tok.k = "str"
    \/ json_number(tok)
    \/ tok.k = "neg" /\ json_number(tok.of)
    \/ tok.k = "plain" /\ tok.s \in {"true", "false", "null"}

RECURSIVE parse_value(_, _), parse_elements(_, _, _), parse_members(_, _, _),
          after_element(_, _, _), after_member(_, _, _, _)
parse_value(text, i) ==
    IF i > Len(text) THEN ParseFail
    ELSE LET tok == text[i]
         IN  IF json_scalar_read(tok) THEN Parsed(tok, i + 1)
             ELSE IF tok.k = "["
             THEN IF i + 1 <= Len(text) /\ text[i + 1].k = "]"
                  THEN Parsed([k |-> "arr", items |-> <<>>], i + 2)
                  ELSE parse_elements(text, i + 1, <<>>)
             ELSE IF tok.k = "{"
             THEN IF i + 1 <= Len(text) /\ text[i + 1].k = "}"
                  THEN Parsed([k |-> "obj", members |-> <<>>], i + 2)
                  ELSE parse_members(text, i + 1, <<>>)
             ELSE ParseFail

\* After the element e of an array: a comma and the next element, or the
\* closing bracket.
after_element(text, acc, e) ==
    IF ~e.ok \/ e.i > Len(text) THEN ParseFail
    ELSE IF text[e.i].k = ","
    THEN parse_elements(text, e.i + 1, Append(acc, e.v))
    ELSE IF text[e.i].k = "]"
    THEN Parsed([k |-> "arr", items |-> Append(acc, e.v)], e.i + 1)
    ELSE ParseFail

parse_elements(text, i, acc) == after_element(text, acc, parse_value(text, i))

\* After the member of an object whose value is e.
after_member(text, acc, key, e) ==
    IF ~e.ok \/ e.i > Len(text) THEN ParseFail
    ELSE IF text[e.i].k = ","
    THEN parse_members(text, e.i + 1, Append(acc, [key |-> key, val |-> e.v]))
    ELSE IF text[e.i].k = "}"
    THEN Parsed([k |-> "obj",
                 members |-> Append(acc, [key |-> key, val |-> e.v])], e.i + 1)
    ELSE ParseFail

parse_members(text, i, acc) ==
    IF i + 1 > Len(text) \/ text[i].k # "str" \/ text[i + 1].k # ":"
    THEN ParseFail
    ELSE after_member(text, acc, text[i].s, parse_value(text, i + 2))

\* The lexemes of a text, its line breaks and indentation skipped.
Lexemes(text) == Concat([i \in 1..Len(text) |-> text[i].toks])

\* The value read, when the reader stopped at the end of the n lexemes.
whole_text(e, n) == IF e.ok /\ e.i = n + 1 THEN Some(e.v) ELSE None

\* from_str: one value, and nothing after it.
parse_tokens(toks) == whole_text(parse_value(toks, 1), Len(toks))

parse_document(text) == parse_tokens(Lexemes(text))

\* A derived Deserialize for a struct: from an object, every field once
\* (an unknown key is skipped), or from an array, the fields in order.
\* The result maps the position of a field to its value.
struct_fields(v, names) ==
    IF v.k = "obj"
    THEN LET at(n) == {j \in 1..Len(v.members) : v.members[j].key = names[n]}
         IN  IF \A n \in 1..Len(names) : Cardinality(at(n)) = 1
             THEN Some([n \in 1..Len(names) |->
                          v.members[CHOOSE j \in at(n) : TRUE].val])
             ELSE None
    ELSE IF v.k = "arr" /\ Len(v.items) = Len(names) THEN Some(v.items)
    ELSE None

(***************************************************************************)
(* Numbers as serde_json reads them with its default features: the digits  *)
(* are gathered into a u64 and a power of ten, and the f64 is their        *)
(* product or quotient in f64 arithmetic.                                  *)
(***************************************************************************)
U64_MAX == big_sub(big_shl(<<1>>, 64), <<1>>)
I32_MAX == 2147483647

\* overflow!(significand * 10 + digit, u64::MAX)
overflows(significand, digit) ==
    big_cmp(big_add(big_mul_small(significand, 10), big_of(digit)), U64_MAX) > 0

\* One digit before the point: it joins the significand, or, from the first
\* digit that does not fit on, only counts in the exponent.
integer_digit(st, digit) ==
    IF st.long \/ overflows(st.significand, digit)
    THEN [st EXCEPT !.long = TRUE, !.exponent = @ + 1]
    ELSE [st EXCEPT !.significand = big_add(big_mul_small(@, 10), big_of(digit))]

\* One digit after the point: it joins the significand, or, from the first
\* digit that does not fit on, is dropped.
decimal_digit(st, digit) ==
    IF st.cut \/ overflows(st.significand, digit) THEN [st EXCEPT !.cut = TRUE]
    ELSE [st EXCEPT !.significand = big_add(big_mul_small(@, 10), big_of(digit)),
                    !.exponent = @ - 1]

RECURSIVE parse_digits(_, _, _, _, _)
\* The digits lo..hi of a number whose first n digits stand before the point.
parse_digits(ds, n, lo, hi, st) ==
    IF ~Computed(st) \/ lo > hi THEN st
    ELSE IF lo = hi
    THEN (IF lo <= n THEN integer_digit(st, ds[lo]) ELSE decimal_digit(st, ds[lo]))
    ELSE parse_digits(ds, n, (lo + hi) \div 2 + 1, hi,
                      parse_digits(ds, n, lo, (lo + hi) \div 2, st))

\* parse_integer and parse_decimal: the significand and the exponent of ten.
parse_significand(num) ==
    parse_digits(num.int \o num.frac, Len(num.int), 1, Len(num.int) + Len(num.frac),
                 [significand |-> <<>>, exponent |-> 0, long |-> FALSE, cut |-> FALSE])

\* POW10[k], for k <= 308
POW10(k) == f64_of_decimal(FALSE, <<1>>, k)

f64_signed(positive, f) == IF positive THEN f ELSE f64_neg(f)

\* f *= pow, an error when the product is infinite.
f64_times_pow10(positive, f) ==
    IF is_infinite(f) THEN None ELSE Some(f64_signed(positive, f))

RECURSIVE f64_from_parts_loop(_, _, _)
f64_from_parts_loop(positive, f, exponent) ==
    IF exponent >= 0 - 308 /\ exponent <= 308
    THEN (IF exponent >= 0 THEN f64_times_pow10(positive, f64_mul(f, POW10(exponent)))
          ELSE Some(f64_signed(positive, f64_div(f, POW10(0 - exponent)))))
    ELSE IF is_zero(f) THEN Some(f64_signed(positive, f))
    ELSE IF exponent >= 0 THEN None
    ELSE f64_from_parts_loop(positive, f64_div(f, POW10(308)), exponent + 308)

\* f64_from_parts: significand * 10^exponent, in f64 arithmetic.
f64_from_parts(positive, significand, exponent) ==
    f64_from_parts_loop(positive, u64_as_f64(significand), exponent)

\* parse_exponent: the exponent written is added to the one the digits gave;
\* one that does not fit an i32 makes the number zero, or an error.
exponent_overflows(e) == big_cmp(big_of_digits(e), big_of(I32_MAX)) > 0
saturating_add(a, b) == IF b > I32_MAX - Max(a, 0) THEN I32_MAX ELSE a + b
saturating_sub(a, b) == IF b > I32_MAX + Min(a, 0) THEN 0 - I32_MAX - 1 ELSE a - b
parse_exponent(positive, st, neg, e) ==
    IF exponent_overflows(e)
    THEN (IF st.significand # <<>> /\ ~neg THEN None
          ELSE Some(f64_zero(~positive)))
    ELSE f64_from_parts(positive, st.significand,
                        IF neg THEN saturating_sub(st.exponent, FromDigits(e))
                        ELSE saturating_add(st.exponent, FromDigits(e)))

\* parse_number of serde_json, read as an f64.
parse_f64(positive, num) ==
    IF num.k = "exp"
    THEN parse_exponent(positive, parse_significand(num.of), num.neg, num.e)
    ELSE f64_from_parts(positive, parse_significand(num).significand,
                        parse_significand(num).exponent)

\* deserialize_f64 of serde_json: the number with its sign.
json_f64(v) ==
    IF v.k \in {"neg", "num", "exp"}
    THEN parse_f64(v.k # "neg", IF v.k = "neg" THEN v.of ELSE v)
    ELSE None

\* What json_f64 reads from the text of each coordinate, computed once.
JsonNumbers == [tok \in {Formatted[x] : x \in Coordinates} |-> json_f64(tok)] @@ <<>>

\* A plain scalar of a YAML document that is a number.
YamlNumber(tok) == [k |-> "yaml", of |-> tok]

\* The exponent written in a number, as far as an i32 holds it.
exponent_of(num) ==
    IF exponent_overflows(num.e) THEN (IF num.neg THEN 0 - I32_MAX ELSE I32_MAX)
    ELSE IF num.neg THEN 0 - FromDigits(num.e) ELSE FromDigits(num.e)

\* Digits that are no number for serde_yaml: more than one, the first a zero.
digits_but_not_number(num) ==
    num.k = "num" /\ num.frac = <<>> /\ Len(num.int) > 1 /\ num.int[1] = 0

\* A number that is not finite is left a string.
finite(f) == IF is_infinite(f) THEN None ELSE Some(f)

\* serde_yaml reads an integer with from_str_radix, which knows no negative
\* zero, and any other number with str::parse::<f64>.
yaml_parse_f64(neg, num) ==
    IF digits_but_not_number(num) THEN None
    ELSE IF num.k = "exp"
    THEN finite(f64_of_decimal(neg, big_of_digits(num.of.int \o num.of.frac),
                               saturating_sub(exponent_of(num), Len(num.of.frac))))
    ELSE IF num.frac = <<>>
    THEN finite(f64_of_decimal(neg /\ big_of_digits(num.int) # <<>>,
                               big_of_digits(num.int), 0))
    ELSE finite(f64_of_decimal(neg, big_of_digits(num.int \o num.frac), 0 - Len(num.frac)))

yaml_f64(tok) == yaml_parse_f64(tok.k = "neg", IF tok.k = "neg" THEN tok.of ELSE tok)

\* f64 from a number, as the reader of the document computes it.
to_f64(v) ==
    IF v.k = "yaml" THEN yaml_f64(v.of) ELSE table_or(JsonNumbers, v, json_f64(v))

\* u32::MAX
U32_MAX == big_sub(big_shl(<<1>>, 32), <<1>>)

\* An integer without a sign that a u32 holds.
digits_u32(num) ==
    IF num.k = "num" /\ num.frac = <<>> /\ big_cmp(big_of_digits(num.int), U32_MAX) <= 0
    THEN Some(FromDigits(num.int)) ELSE None

\* serde_yaml reads "-0" as the integer 0.
yaml_u32(tok) ==
    IF digits_but_not_number(tok) THEN None
    ELSE IF /\ tok.k = "neg" /\ tok.of.k = "num" /\ tok.of.frac = <<>>
            /\ tok.of.int # <<>> /\ \A j \in 1..Len(tok.of.int) : tok.of.int[j] = 0
    THEN Some(0)
    ELSE digits_u32(tok)

\* u32 from a number without a fraction, an exponent or a sign.
to_u32(v) == IF v.k = "yaml" THEN yaml_u32(v.of) ELSE digits_u32(v)

to_string(v) == IF v.k = "str" THEN Some(v.s) ELSE None

\* AnnotationType from the name of a variant, or from a map of that one
\* name to null.
to_type(v) ==
    IF v.k = "str" /\ v.s = "polygon" THEN Some(Polygon)
    ELSE IF v.k = "str" /\ v.s = "line" THEN Some(Line)
    ELSE IF /\ v.k = "obj" /\ Len(v.members) = 1
            /\ v.members[1].key \in {"polygon", "line"}
            /\ v.members[1].val = Plain("null")
    THEN Some(IF v.members[1].key = "polygon" THEN Polygon ELSE Line)
    ELSE None

\* Vec<T> from the items read of an array; one bad item fails it all.
to_vec(items) ==
    IF \A j \in 1..Len(items) : IsSome(items[j])
    THEN Some([j \in 1..Len(items) |-> Unwrap(items[j])])
    ELSE None

\* Point, Annotation and ProjectData by their derived Deserialize: the
\* fields of the struct, each read by its type, and the value built when
\* every one of them was read.
\* The fields of a Point are both f64.
to_f64s(f) ==
    IF IsNone(f) THEN None
    ELSE to_vec([n \in 1..Len(Unwrap(f)) |-> to_f64(Unwrap(f)[n])])

build_point(c) == IF IsNone(c) THEN None ELSE Some(Point_new(Unwrap(c)[1], Unwrap(c)[2]))

to_point(v) == build_point(to_f64s(struct_fields(v, <<"x", "y">>)))

to_points(array) ==
    IF array.k # "arr" THEN None
    ELSE to_vec([j \in 1..Len(array.items) |-> to_point(array.items[j])])

build_annotation(name, type, vertices) ==
    IF IsSome(name) /\ IsSome(type) /\ IsSome(vertices)
    THEN Some([name |-> Unwrap(name), annotation_type |-> Unwrap(type),
               vertices |-> Unwrap(vertices)])
    ELSE None

read_annotation(f) ==
    IF IsNone(f) THEN None
    ELSE build_annotation(to_string(Unwrap(f)[1]), to_type(Unwrap(f)[2]),
                          to_points(Unwrap(f)[3]))

to_annotation(v) == read_annotation(struct_fields(v, <<"name", "type", "vertices">>))

to_annotations(array) ==
    IF array.k # "arr" THEN None
    ELSE to_vec([j \in 1..Len(array.items) |-> to_annotation(array.items[j])])

build_project(media_file, frame_width, frame_height, annotations) ==
    IF /\ IsSome(media_file) /\ IsSome(frame_width)
       /\ IsSome(frame_height) /\ IsSome(annotations)
    THEN Some([media_file |-> Unwrap(media_file),
               frame_width |-> Unwrap(frame_width),
               frame_height |-> Unwrap(frame_height),
               annotations |-> Unwrap(annotations)])
    ELSE None

read_project(f) ==
    IF IsNone(f) THEN None
    ELSE build_project(to_string(Unwrap(f)[1]), to_u32(Unwrap(f)[2]),
                       to_u32(Unwrap(f)[3]), to_annotations(Unwrap(f)[4]))

to_project(v) ==
    read_project(struct_fields(v, <<"media_file", "frame_width", "frame_height",
                                    "annotations">>))

\* The ProjectData of a document, None when there is no document.
project_from(v) == IF IsNone(v) THEN None ELSE to_project(Unwrap(v))

\* import_json: serde_json::from_str of the text read from path; None is Err.
import_json(text) == project_from(parse_document(text))

(***************************************************************************)
(* io/serialization.rs, YAML.  serde_yaml writes block style: a mapping    *)
(* is one "key: value" line per field, a sequence one "- item" line per    *)
(* item, a nested mapping or sequence the following lines, and an empty    *)
(* sequence "[]".  Strings that need no quotes are written plain.          *)
(***************************************************************************)
yaml_key(name) == <<Plain(name), Punct(":")>>

\* A Point, as an item of the vertices sequence at indentation n.
yaml_coordinates(w, n) ==
    <<TextLine(n, <<Punct("-")>> \o yaml_key("x") \o <<w.x>>),
      TextLine(n + 2, yaml_key("y") \o <<w.y>>)>>

yaml_point(p, n) == yaml_coordinates(format_point(p), n)

\* An Annotation, as an item of the annotations sequence at indentation n.
yaml_annotation(a, n) ==
    <<TextLine(n, <<Punct("-")>> \o yaml_key("name") \o <<Plain(a.name)>>),
      TextLine(n + 2, yaml_key("type") \o <<Plain(type_name(a.annotation_type))>>)>>
    \o IF a.vertices = <<>>
       THEN <<TextLine(n + 2, yaml_key("vertices") \o <<Punct("["), Punct("]")>>)>>
       ELSE <<TextLine(n + 2, yaml_key("vertices"))>>
            \o Concat([i \in 1..Len(a.vertices) |-> yaml_point(a.vertices[i], n + 2)])

\* serde_yaml::to_string(data).
yaml_to_string(data) ==
    <<TextLine(0, yaml_key("media_file") \o <<Plain(data.media_file)>>),
      TextLine(0, yaml_key("frame_width") \o <<format_u32(data.frame_width)>>),
      TextLine(0, yaml_key("frame_height") \o <<format_u32(data.frame_height)>>)>>
    \o IF data.annotations = <<>>
       THEN <<TextLine(0, yaml_key("annotations") \o <<Punct("["), Punct("]")>>)>>
       ELSE <<TextLine(0, yaml_key("annotations"))>>
            \o Concat([i \in 1..Len(data.annotations) |->
                         yaml_annotation(data.annotations[i], 0)])

\* str::ends_with and str::starts_with, on the characters of a word.
ends_with(s, suffix) ==
    Len(s) >= Len(suffix) /\ SubSeq(s, Len(s) - Len(suffix) + 1, Len(s)) = suffix
starts_with(s, prefix) ==
    Len(s) >= Len(prefix) /\ SubSeq(s, 1, Len(prefix)) = prefix

\* line.contains("vertices:") && line.trim_end().ends_with("vertices:"): the
\* line ends in a colon right after a word that ends in "vertices".
is_vertices_line(line) ==
    /\ Len(line.toks) >= 2
    /\ line.toks[Len(line.toks)].k = ":"
    /\ line.toks[Len(line.toks) - 1].k = "plain"
    /\ ends_with(line.toks[Len(line.toks) - 1].s, "vertices")

\* trim_start().starts_with("- ")
starts_with_dash(line) == Len(line.toks) >= 2 /\ line.toks[1].k = "-"

\* trim_start().starts_with("- -"): after the item mark comes a dash, which is
\* a second item mark, the sign of a negative number or the first character
\* of a plain word.
starts_with_two_dashes(line) ==
    /\ starts_with_dash(line)
    /\ \/ line.toks[2].k \in {"-", "neg"}
       \/ line.toks[2].k = "plain" /\ starts_with(line.toks[2].s, "-")

\* trim_start().strip_prefix("- - ") is None on a line that starts with "- -"
\* unless the second dash is an item mark with something after it.
strip_prefix_fails(line) == ~(line.toks[2].k = "-" /\ Len(line.toks) >= 3)

RECURSIVE collect_vertices(_, _, _, _)
\* The inner loop of convert_vertices_to_flow_style: from line i on, the
\* lines that are list items indented at least `indent`.  A "- - x" line
\* and the "- y" line after it make the vertex "[x, y]"; any other item
\* line is skipped.  Returns the vertices and the line the loop stopped at;
\* panic: the unwrap of strip_prefix("- - ") aborted the call at that line.
collect_vertices(lines, i, indent, vertices) ==
    IF i > Len(lines) THEN [vertices |-> vertices, i |-> i, panic |-> FALSE]
    ELSE LET vertex_line == lines[i]
         IN  IF vertex_line.indent < indent \/ ~starts_with_dash(vertex_line)
             THEN [vertices |-> vertices, i |-> i, panic |-> FALSE]
             ELSE IF starts_with_two_dashes(vertex_line) /\ strip_prefix_fails(vertex_line)
             THEN [vertices |-> vertices, i |-> i, panic |-> TRUE]
             ELSE IF starts_with_two_dashes(vertex_line)
             THEN LET x_str == SubSeq(vertex_line.toks, 3, Len(vertex_line.toks))
                  IN  IF i + 1 <= Len(lines) /\ starts_with_dash(lines[i + 1])
                      THEN LET y_str == Tail(lines[i + 1].toks)
                               vertex == <<Punct("[")>> \o x_str \o <<Punct(",")>>
                                         \o y_str \o <<Punct("]")>>
                           IN  collect_vertices(lines, i + 2, indent,
                                                Append(vertices, vertex))
                      ELSE collect_vertices(lines, i + 1, indent, vertices)
             ELSE collect_vertices(lines, i + 1, indent, vertices)

\* The vertices in flow style, ", " between two of them.
flow_vertices(vertices) ==
    Concat([j \in 1..Len(vertices) |->
              IF j > 1 THEN <<Punct(",")>> \o vertices[j] ELSE vertices[j]])

RECURSIVE convert_from(_, _)
\* The outer loop of convert_vertices_to_flow_style from line i on: lines
\* are copied up to the next "vertices:" line, which gets " [", the
\* vertices collected after it and "]"; the loop goes on where the
\* collection stopped.
convert_from(lines, i) ==
    LET heads == {v \in i..Len(lines) : is_vertices_line(lines[v])}
    IN  IF heads = {} THEN SubSeq(lines, i, Len(lines))
        ELSE LET v == CHOOSE h \in heads : \A other \in heads : h <= other
                 indent == IF v + 1 <= Len(lines) THEN lines[v + 1].indent ELSE 0
                 got == collect_vertices(lines, v + 1, indent, <<>>)
             IN  SubSeq(lines, i, v - 1)
                 \o <<TextLine(lines[v].indent,
                               lines[v].toks \o <<Punct("[")>>
                               \o flow_vertices(got.vertices) \o <<Punct("]")>>)>>
                 \o convert_from(lines, got.i)

convert_vertices_to_flow_style(yaml) == convert_from(yaml, 1)

RECURSIVE panics_from(_, _)
\* The same loop from line i on: whether it reaches a line whose unwrap panics.
panics_from(lines, i) ==
    LET heads == {v \in i..Len(lines) : is_vertices_line(lines[v])}
    IN  IF heads = {} THEN FALSE
        ELSE LET v == CHOOSE h \in heads : \A other \in heads : h <= other
                 indent == IF v + 1 <= Len(lines) THEN lines[v + 1].indent ELSE 0
                 got == collect_vertices(lines, v + 1, indent, <<>>)
             IN  got.panic \/ panics_from(lines, got.i)

\* convert_vertices_to_flow_style(yaml) panics instead of returning.
convert_panics(yaml) == panics_from(yaml, 1)

\* export_yaml: the text written to path.
export_yaml(data) == convert_vertices_to_flow_style(yaml_to_string(data))

\* The YAML reader.  Each "- " that opens a line is the mark of a sequence
\* item at the line's indentation, and what follows it is a line of its own
\* two columns deeper.
RECURSIVE block_lines(_)
block_lines(line) ==
    IF line.toks # <<>> /\ line.toks[1].k = "-"
    THEN <<[indent |-> line.indent, dash |-> TRUE, toks |-> <<>>]>>
         \o (IF Len(line.toks) = 1 THEN <<>>
             ELSE block_lines(TextLine(line.indent + 2, Tail(line.toks))))
    ELSE <<[indent |-> line.indent, dash |-> FALSE, toks |-> line.toks]>>

is_key_line(l) ==
    /\ ~l.dash
    /\ Len(l.toks) >= 2
    /\ l.toks[1].k \in {"plain", "str"}
    /\ l.toks[2].k = ":"

YamlNull == [k |-> "null"]

\* A value written on one line: a plain word, or a flow value, which reads
\* like JSON.
yaml_inline(toks) ==
    IF Len(toks) = 1 /\ toks[1].k = "plain" THEN Parsed(Str(toks[1].s), 2)
    ELSE IF Len(toks) = 1 /\ toks[1].k \in {"num", "neg", "exp"} THEN Parsed(toks[1], 2)
    ELSE parse_value(toks, 1)

\* A one-line value that takes the n lexemes given, then line i.
inline_value(e, n, i) ==
    IF e.ok /\ e.i = n + 1 THEN Parsed(e.v, i) ELSE ParseFail

RECURSIVE yaml_block(_, _), yaml_items(_, _, _, _), yaml_entries(_, _, _, _),
          after_item(_, _, _, _), after_entry(_, _, _, _, _)
\* The node that starts at line i: a block sequence, a block mapping or a
\* one-line value.
yaml_block(ls, i) ==
    IF ls[i].dash THEN yaml_items(ls, i, ls[i].indent, <<>>)
    ELSE IF is_key_line(ls[i]) THEN yaml_entries(ls, i, ls[i].indent, <<>>)
    ELSE inline_value(yaml_inline(ls[i].toks), Len(ls[i].toks), i + 1)

\* After the item e of the block sequence at indentation c: the next item
\* mark at c, or the end of the sequence.
after_item(ls, c, acc, e) ==
    IF ~e.ok THEN ParseFail
    ELSE IF e.i <= Len(ls) /\ ls[e.i].dash /\ ls[e.i].indent = c
    THEN yaml_items(ls, e.i, c, Append(acc, e.v))
    ELSE Parsed([k |-> "arr", items |-> Append(acc, e.v)], e.i)

\* The items of the block sequence at indentation c; line i is an item mark.
yaml_items(ls, i, c, acc) ==
    after_item(ls, c, acc,
               IF i + 1 <= Len(ls) /\ ls[i + 1].indent > c
               THEN yaml_block(ls, i + 1)
               ELSE Parsed(YamlNull, i + 1))

\* After the entry of the block mapping at indentation c whose value is e:
\* the next key line at c, or the end of the mapping.
after_entry(ls, c, acc, key, e) ==
    IF ~e.ok THEN ParseFail
    ELSE IF e.i <= Len(ls) /\ ls[e.i].indent = c /\ is_key_line(ls[e.i])
    THEN yaml_entries(ls, e.i, c, Append(acc, [key |-> key, val |-> e.v]))
    ELSE Parsed([k |-> "obj",
                 members |-> Append(acc, [key |-> key, val |-> e.v])], e.i)

\* The value of the entry on line i, whose lexemes after "key:" are rest.
\* A value that is not on the key's line is the block that follows, deeper,
\* or a sequence at the same indentation.
entry_value(ls, i, c, rest) ==
    IF rest # <<>> THEN inline_value(yaml_inline(rest), Len(rest), i + 1)
    ELSE IF i + 1 <= Len(ls) /\ ls[i + 1].indent > c
    THEN yaml_block(ls, i + 1)
    ELSE IF i + 1 <= Len(ls) /\ ls[i + 1].indent = c /\ ls[i + 1].dash
    THEN yaml_items(ls, i + 1, c, <<>>)
    ELSE Parsed(YamlNull, i + 1)

\* The entries of the block mapping at indentation c; line i is "key: ...".
yaml_entries(ls, i, c, acc) ==
    after_entry(ls, c, acc, ls[i].toks[1].s,
                entry_value(ls, i, c, SubSeq(ls[i].toks, 3, Len(ls[i].toks))))

\* The document of the block lines ls: one node, every line part of it.
document_of(ls) ==
    IF ls # <<>> /\ ls[1].indent = 0 THEN whole_text(yaml_block(ls, 1), Len(ls))
    ELSE None

\* from_str: one document.
yaml_document(text) ==
    document_of(Concat([i \in 1..Len(text) |-> block_lines(text[i])]))

RECURSIVE yaml_numbers(_)
\* The value read, its numbers marked as read by serde_yaml.
yaml_numbers(v) ==
    IF v.k = "arr" THEN [v EXCEPT !.items = [j \in 1..Len(@) |-> yaml_numbers(@[j])]]
    ELSE IF v.k = "obj"
    THEN [v EXCEPT !.members = [j \in 1..Len(@) |->
                                   [@[j] EXCEPT !.val = yaml_numbers(@)]]]
    ELSE IF v.k \in {"num", "neg", "exp"} THEN YamlNumber(v)
    ELSE v

yaml_value(v) == IF IsNone(v) THEN None ELSE Some(yaml_numbers(Unwrap(v)))

\* import_yaml: serde_yaml::from_str of the text read from path; None is Err.
import_yaml(text) == project_from(yaml_value(yaml_document(text)))

\* The codec driver: no call made.
NoCall == [arg |-> None, text |-> None, ret |-> None]

\* The Annotation driver before Annotation::new.
NoProbe ==
    [op |-> "none", kind |-> Polygon, annotation |-> None, added |-> <<>>,
     adds_only |-> TRUE, point |-> None, index |-> 0, threshold |-> f64_zero(FALSE),
     found |-> None, ok |-> FALSE]

(***************************************************************************)
(* The files the user can pick.  An image file decodes to its dimensions   *)
(* or fails; an annotation file holds a text, which the codec chosen by    *)
(* its extension reads as a ProjectData or rejects.  serde accepts any     *)
(* vertex count, so a file may hold annotations with fewer than two        *)
(* vertices.                                                               *)
(***************************************************************************)
P0 == Hundredths(0, 0)
P1 == Hundredths(100, 100)
\* Where the user clicks, and where a dragged vertex is moved to.  No handler
\* branches on a position: one click position, and one drag position that
\* moves the vertices placed at P0 and leaves those at P1 where they are.
ClickPoints == {P0}
DragPoints == {P1}

ImagePaths == {"ok.png", "bad.png"}

\* Path::exists: ok.png is an image, bad.png a file that is no image, and
\* there is no missing.png.
Exists(path) == path \in {"ok.png", "bad.png"}

\* io/media.rs load_image: Some(<<width, height>>), or None when the file
\* cannot be opened or decoded.
load_image(path) == IF path = "ok.png" THEN Some(<<2, 1>>) ELSE None

FileLine2 ==
    [name |-> <<"line", 1>>, annotation_type |-> Line, vertices |-> <<P0, P1>>]
FilePolygon2 ==
    [name |-> <<"region", 2>>, annotation_type |-> Polygon, vertices |-> <<P1, P0>>]
FilePolygon1 ==
    [name |-> <<"region", 1>>, annotation_type |-> Polygon, vertices |-> <<P1>>]

\* A project of 2 by 1 pixels, and its text as JSON or as block-style YAML.
FileData(media_file, annotations) ==
    [media_file |-> media_file, frame_width |-> 2, frame_height |-> 1,
     annotations |-> annotations]
written_as(format, data) ==
    IF format = "json" THEN export_json(data) ELSE yaml_to_string(data)

\* The files found on disk, each with its text.  The annotation files: two
\* JSON files of a project on ok.png, a block-style YAML file whose image is
\* missing, and an empty file.  More files, for the choice of the codec:
\* block-style YAML under .yml, under .json and under no extension, and JSON
\* under .txt.
FoundFiles ==
    {[path |-> f[1], text |-> written_as(f[2], f[3])] :
        f \in {<<"good.json", "json", FileData("ok.png", <<FileLine2, FilePolygon2>>)>>,
               <<"short.json", "json", FileData("ok.png", <<FilePolygon1>>)>>,
               <<"noimage.yaml", "yaml", FileData("missing.png", <<FileLine2>>)>>,
               <<"plain.yml", "yaml", FileData("ok.png", <<FileLine2>>)>>,
               <<"swapped.json", "yaml", FileData("ok.png", <<FileLine2>>)>>,
               <<"README", "yaml", FileData("ok.png", <<FileLine2>>)>>,
               <<"notes.txt", "json", FileData("ok.png", <<FileLine2>>)>>}}
    \cup {[path |-> "broken.json", text |-> <<>>]}

AnnotationFiles ==
    {f \in FoundFiles : f.path \in {"good.json", "short.json", "noimage.yaml", "broken.json"}}
DispatchFiles ==
    {f \in FoundFiles : f.path \in {"plain.yml", "swapped.json", "README", "notes.txt"}}

\* Where Export Annotations may write.
ExportPaths == {"out.json", "out.yaml", "out.yml", "out.txt", "out"}

\* path.extension().and_then(|s| s.to_str())
extension(path) ==
    IF path \in {"good.json", "short.json", "broken.json", "swapped.json", "out.json"}
    THEN Some("json")
    ELSE IF path \in {"noimage.yaml", "out.yaml"} THEN Some("yaml")
    ELSE IF path \in {"plain.yml", "out.yml"} THEN Some("yml")
    ELSE IF path \in {"notes.txt", "out.txt"} THEN Some("txt")
    ELSE IF path \in {"ok.png", "bad.png", "missing.png"} THEN Some("png")
    ELSE None

\* std::fs::read_to_string(path): what Export Annotations wrote there, or
\* the file found on disk.
text_at(files, path) ==
    IF \E f \in files : f.path = path
    THEN Some((CHOOSE f \in files : f.path = path).text) ELSE None
first_of(written, found) == IF IsSome(written) THEN written ELSE found
read_to_string(path) == first_of(text_at(disk, path), text_at(FoundFiles, path))

\* Result<LoadedImageData, String> as sent over the channel.
\* (pixels: the image file the pixel buffer was decoded from)
LoadOk(dims, pixels, proj) ==
    [ok |-> TRUE, width |-> dims[1], height |-> dims[2], pixels |-> pixels,
     project |-> Some(proj), error |-> ""]
LoadErr(error) ==
    [ok |-> FALSE, width |-> 0, height |-> 0, pixels |-> "", project |-> None,
     error |-> error]

\* The closure run by the thread of load_image_file.
load_image_worker(path) ==
    LET loaded_img == load_image(path)
    IN  IF IsNone(loaded_img) THEN LoadErr("Failed to load image")
        ELSE LoadOk(Unwrap(loaded_img), path,
                    ProjectData_new(path, Unwrap(loaded_img)[1], Unwrap(loaded_img)[2]))

\* What the match on the extension yields: the project read by the chosen
\* codec, that codec's error, or the refusal of the extension.
parsed_by(ext, data) ==
    IF ext \notin {Some("yaml"), Some("yml"), Some("json")}
    THEN [ok |-> FALSE, error |-> "Unsupported file extension"]
    ELSE IF IsNone(data)
    THEN [ok |-> FALSE,
          error |-> IF ext = Some("json") THEN "Failed to import JSON"
                    ELSE "Failed to import YAML"]
    ELSE [ok |-> TRUE, project_data |-> Unwrap(data)]

\* The text of a file read by the codec of extension ext.
read_by(ext, text) ==
    IF IsNone(text) THEN None
    ELSE IF ext \in {Some("yaml"), Some("yml")} THEN import_yaml(Unwrap(text))
    ELSE IF ext = Some("json") THEN import_json(Unwrap(text))
    ELSE None

\* "Parse annotation file" on the text read at path: the codec is chosen by
\* the extension of path.
parse_text(path, text) == parsed_by(extension(path), read_by(extension(path), text))

parse_files(files) ==
    [path \in {f.path : f \in files} |-> parse_text(path, text_at(files, path))]

\* "Parse annotation file" on each file as it is found on disk, computed once.
FoundParsed == parse_files(FoundFiles) @@ <<>>

\* A file that Export Annotations wrote is parsed as it is at that moment,
\* any other as it was found; a path that names neither has no text.
parse_read(path, written) ==
    IF IsSome(written) THEN parse_text(path, written)
    ELSE table_or(FoundParsed, path, parse_text(path, None))

\* import_annotations, "Parse annotation file": the file is read as it is at
\* that moment.
parse_annotations(path) == parse_read(path, text_at(disk, path))

\* import_annotations, "Load the referenced image file", for a parsed file.
load_referenced(parsed) ==
    IF ~parsed.ok THEN LoadErr(parsed.error)
    ELSE LET project_data == parsed.project_data
             loaded_img == load_image(project_data.media_file)
         IN  IF ~Exists(project_data.media_file)
             THEN LoadErr("Referenced image not found")
             ELSE IF IsNone(loaded_img) THEN LoadErr("Failed to load image")
             ELSE LoadOk(Unwrap(loaded_img), project_data.media_file, project_data)

\* The closure run by the thread of import_annotations, all at once.
import_worker(path) == load_referenced(parse_annotations(path))

(***************************************************************************)
(* app.rs: RoidsApp                                                        *)
(***************************************************************************)
Tool == {"Select", "Polygon", "Line"}

\* RoidsApp::new, and nothing written or called yet.
NewApp ==
    /\ current_tool = "Select"
    /\ project = None
    /\ selected_annotation = None
    /\ image_texture = None
    /\ image_size = None
    /\ in_progress_annotation = None
    /\ annotation_counter = 0
    /\ dragging_vertex = None
    /\ history = History_new
    /\ image_loader = None
    /\ loading_message = None
    /\ channel = None
    /\ workers = {}
    /\ load_seq = 0
    /\ last_action = "new"
    /\ drag_origin = None
    /\ hist_arg = <<>>
    /\ hist_ret = None
    /\ hist_got = <<>>
    /\ hist_cleared = <<>>
    /\ disk = {}
    /\ probe = NoProbe
    /\ drag_target = None
    /\ trail = <<>>

Init == NewApp /\ codec = NoCall

Annotations == IF IsSome(project) THEN Unwrap(project).annotations ELSE <<>>

\* The project with its annotation collection replaced.
WithAnnotations(anns) == Some([Unwrap(project) EXCEPT !.annotations = anns])

\* save_to_history: push a copy of the collection.
save_to_history(annotations) == History_push(history, annotations)

\* start_annotation: the in-progress annotation it leaves.
\* Naming after the counter as it is, without the + 1.
start_annotation_unnumbered ==
    CASE current_tool = "Polygon" ->
            Some(Annotation_new(<<"region", annotation_counter>>, Polygon))
      [] current_tool = "Line" ->
            Some(Annotation_new(<<"line", annotation_counter>>, Line))
      [] current_tool = "Select" -> in_progress_annotation

start_annotation ==
    CASE current_tool = "Polygon" ->
            Some(Annotation_new(<<"region", annotation_counter + 1>>, Polygon))
      [] current_tool = "Line" ->
            Some(Annotation_new(<<"line", annotation_counter + 1>>, Line))
      [] current_tool = "Select" -> in_progress_annotation

\* Snapshotting after the append instead of before it.
finish_annotation_snapshot_late ==
    /\ in_progress_annotation' = None
    /\ IF /\ IsSome(in_progress_annotation)
          /\ vertex_count(Unwrap(in_progress_annotation)) >= 2
          /\ IsSome(project)
       THEN /\ history' = save_to_history(
                    Append(Annotations, Unwrap(in_progress_annotation)))
            /\ project' = WithAnnotations(Append(Annotations, Unwrap(in_progress_annotation)))
            /\ annotation_counter' = annotation_counter + 1
       ELSE UNCHANGED <<history, project, annotation_counter>>

\* A commit gate of one vertex instead of two.
finish_annotation_gate_one ==
    /\ in_progress_annotation' = None
    /\ IF /\ IsSome(in_progress_annotation)
          /\ vertex_count(Unwrap(in_progress_annotation)) >= 1
          /\ IsSome(project)
       THEN /\ history' = save_to_history(Annotations)
            /\ project' = WithAnnotations(Append(Annotations, Unwrap(in_progress_annotation)))
            /\ annotation_counter' = annotation_counter + 1
       ELSE UNCHANGED <<history, project, annotation_counter>>

\* finish_annotation
finish_annotation ==
    /\ in_progress_annotation' = None
    /\ IF /\ IsSome(in_progress_annotation)
          /\ vertex_count(Unwrap(in_progress_annotation)) >= 2
          /\ IsSome(project)
       THEN /\ history' = save_to_history(Annotations)
            /\ project' = WithAnnotations(Append(Annotations, Unwrap(in_progress_annotation)))
            /\ annotation_counter' = annotation_counter + 1
       ELSE UNCHANGED <<history, project, annotation_counter>>

\* cancel_annotation
\* Keeping an in-progress annotation that is complete enough to commit.
cancel_annotation_keeps_complete ==
    in_progress_annotation' =
        IF IsSome(in_progress_annotation)
           /\ vertex_count(Unwrap(in_progress_annotation)) >= 2
        THEN in_progress_annotation ELSE None

cancel_annotation == in_progress_annotation' = None

\* load_image_file / import_annotations: a fresh channel replaces the receiver
\* and a thread is spawned holding the sender.
start_load(job) ==
    /\ image_loader' = Some(load_seq + 1)
    /\ loading_message' = Some("Loading")
    /\ channel' = None
    /\ workers' = workers \cup {[chan |-> load_seq + 1, job |-> job, parsed |-> None]}
    /\ load_seq' = load_seq + 1

\* What the thread of `job` sends.
worker_result(w) ==
    IF w.job.kind = "image" THEN load_image_worker(w.job.path)
    ELSE load_referenced(Unwrap(w.parsed))

\* The text up to lexeme m of line k + 1.
cut_text(text, k, m) ==
    SubSeq(text, 1, k)
        \o (IF m = 0 THEN <<>>
            ELSE <<TextLine(text[k + 1].indent, SubSeq(text[k + 1].toks, 1, m))>>)

\* What the file holds while std::fs::write(path, text) is under way: the file
\* is truncated and then filled, so it has the text up to some lexeme, nothing
\* at first.
torn_texts(text) ==
    UNION {{cut_text(text, k, m) :
               m \in 0..(IF text[k + 1].toks = <<>> THEN 0 ELSE Len(text[k + 1].toks) - 1)} :
           k \in 0..(Len(text) - 1)}

\* The threads of import_annotations that have not read the file at path yet.
Readers(path) ==
    {w \in workers : w.job.kind = "import" /\ w.job.path = path /\ IsNone(w.parsed)}

\* "Parse annotation file" by a thread that finds `text` at its path.
parse_found(w, text) == [w EXCEPT !.parsed = Some(parse_text(w.job.path, Some(text)))]

\* std::fs::write(path, text), called in update: the file is created or
\* replaced.  A thread that reads the file while it is written parses what
\* the file holds at that moment.
fs_write(path, text) ==
    /\ disk' = {f \in disk : f.path # path} \cup {[path |-> path, text |-> text]}
    /\ \/ workers' = workers
       \/ \E late \in (SUBSET Readers(path)) \ {{}} :
              \E found \in [late -> torn_texts(text)] :
                  workers' = (workers \ late) \cup {parse_found(w, found[w]) : w \in late}

\* An export that writes JSON under an extension it does not know.
export_annotations_falls_back(path) ==
    IF IsSome(project)
    THEN IF extension(path) \in {Some("yaml"), Some("yml")}
         THEN fs_write(path, export_yaml(Unwrap(project)))
         ELSE fs_write(path, export_json(Unwrap(project)))
    ELSE UNCHANGED <<disk, workers>>

export_annotations(path) ==
    IF IsSome(project) /\ extension(path) \in {Some("yaml"), Some("yml"), Some("json")}
    THEN fs_write(path, IF extension(path) = Some("json")
                        THEN export_json(Unwrap(project))
                        ELSE export_yaml(Unwrap(project)))
    ELSE UNCHANGED <<disk, workers>>

\* A completion that appends the loaded annotations to those of the project.
poll_completed_merges ==
    LET result == Unwrap(channel)
    IN  /\ image_loader' = None
        /\ loading_message' = None
        /\ channel' = None
        /\ IF result.ok
           THEN /\ image_texture' = Some(result.pixels)
                /\ image_size' = Some(<<result.width, result.height>>)
                /\ IF IsSome(result.project)
                   THEN /\ project' = Some([Unwrap(result.project) EXCEPT
                                   !.annotations = Annotations \o @])
                        /\ annotation_counter' = Len(Unwrap(project').annotations)
                   ELSE UNCHANGED <<annotation_counter, project>>
           ELSE UNCHANGED <<image_texture, image_size, annotation_counter, project>>

\* A failed load that drops the project and the image.
poll_completed_resets_on_error ==
    LET result == Unwrap(channel)
    IN  /\ image_loader' = None
        /\ loading_message' = None
        /\ channel' = None
        /\ IF result.ok
           THEN /\ image_texture' = Some(result.pixels)
                /\ image_size' = Some(<<result.width, result.height>>)
                /\ IF IsSome(result.project)
                   THEN /\ annotation_counter' = Len(Unwrap(result.project).annotations)
                        /\ project' = result.project
                   ELSE UNCHANGED <<annotation_counter, project>>
           ELSE /\ image_texture' = None
                /\ image_size' = None
                /\ project' = None
                /\ UNCHANGED annotation_counter

\* Leaving loading mode in the Ok arm only.
poll_completed_stays_on_error ==
    LET result == Unwrap(channel)
    IN  /\ channel' = None
        /\ IF result.ok
           THEN /\ image_loader' = None
                /\ loading_message' = None
                /\ image_texture' = Some(result.pixels)
                /\ image_size' = Some(<<result.width, result.height>>)
                /\ IF IsSome(result.project)
                   THEN /\ annotation_counter' = Len(Unwrap(result.project).annotations)
                        /\ project' = result.project
                   ELSE UNCHANGED <<annotation_counter, project>>
           ELSE UNCHANGED <<image_loader, loading_message, image_texture, image_size,
                            annotation_counter, project>>

\* update, "Check for completed image loading": try_recv returned Ok(result).
poll_completed ==
    LET result == Unwrap(channel)
    IN  /\ image_loader' = None
        /\ loading_message' = None
        /\ channel' = None
        /\ IF result.ok
           THEN /\ image_texture' = Some(result.pixels)
                /\ image_size' = Some(<<result.width, result.height>>)
                /\ IF IsSome(result.project)
                   THEN /\ annotation_counter' = Len(Unwrap(result.project).annotations)
                        /\ project' = result.project
                   ELSE UNCHANGED <<annotation_counter, project>>
           ELSE UNCHANGED <<image_texture, image_size, annotation_counter, project>>

\* An undo that leaves the selection as it was.
controller_undo_keeps_selection ==
    IF IsSome(project)
    THEN LET r == History_undo(history, Annotations)
         IN  /\ history' = r.h
             /\ IF IsSome(r.ret)
                THEN /\ project' = WithAnnotations(Unwrap(r.ret))
                     /\ UNCHANGED selected_annotation
                ELSE UNCHANGED <<project, selected_annotation>>
    ELSE UNCHANGED <<history, project, selected_annotation>>

\* update, Edit > Undo and Ctrl+Z: the body run once undo is available.
controller_undo ==
    IF IsSome(project)
    THEN LET r == History_undo(history, Annotations)
         IN  /\ history' = r.h
             /\ IF IsSome(r.ret)
                THEN /\ project' = WithAnnotations(Unwrap(r.ret))
                     /\ selected_annotation' = None
                ELSE UNCHANGED <<project, selected_annotation>>
    ELSE UNCHANGED <<history, project, selected_annotation>>

\* update, Edit > Redo and Ctrl+Shift+Z / Ctrl+Y: the body run once redo is available.
controller_redo ==
    IF IsSome(project)
    THEN LET r == History_redo(history, Annotations)
         IN  /\ history' = r.h
             /\ IF IsSome(r.ret)
                THEN /\ project' = WithAnnotations(Unwrap(r.ret))
                     /\ selected_annotation' = None
                ELSE UNCHANGED <<project, selected_annotation>>
    ELSE UNCHANGED <<history, project, selected_annotation>>

\* Snapshotting before the index is validated.
delete_annotation_snapshot_first(idx) ==
    IF IsSome(project)
    THEN /\ history' = save_to_history(Annotations)
         /\ IF idx < Len(Annotations)
            THEN /\ project' = WithAnnotations(VecRemove(Annotations, idx))
                 /\ selected_annotation' = None
            ELSE UNCHANGED <<project, selected_annotation>>
    ELSE UNCHANGED <<history, project, selected_annotation>>

\* Removing the last annotation instead of the selected one.
delete_annotation_last(idx) ==
    IF IsSome(project) /\ idx < Len(Annotations)
    THEN /\ history' = save_to_history(Annotations)
         /\ project' = WithAnnotations(VecRemove(Annotations, Len(Annotations) - 1))
         /\ selected_annotation' = None
    ELSE UNCHANGED <<history, project, selected_annotation>>

\* update, the delete body shared by the Delete key, Edit > Delete Selected and
\* PropertiesAction::DeleteAnnotation(idx).
delete_annotation(idx) ==
    IF IsSome(project) /\ idx < Len(Annotations)
    THEN /\ history' = save_to_history(Annotations)
         /\ project' = WithAnnotations(VecRemove(Annotations, idx))
         /\ selected_annotation' = None
    ELSE UNCHANGED <<history, project, selected_annotation>>

\* update, CanvasAction::AddVertex(point)
handle_add_vertex(point) ==
    LET started == IF IsNone(in_progress_annotation)
                   THEN start_annotation ELSE in_progress_annotation
    IN  in_progress_annotation' =
            IF IsSome(started) THEN Some(add_vertex(Unwrap(started), point))
            ELSE started

\* update, CanvasAction::StartDraggingVertex(ann_idx, vertex_idx)
handle_start_dragging(ann_idx, vertex_idx) ==
    /\ history' = IF IsSome(project) THEN save_to_history(Annotations) ELSE history
    /\ dragging_vertex' = Some(<<ann_idx, vertex_idx>>)
    /\ selected_annotation' = Some(ann_idx)

\* Snapshotting at every pointer move.
handle_drag_vertex_snapshots(point) ==
    IF /\ IsSome(dragging_vertex)
       /\ IsSome(project)
       /\ Unwrap(dragging_vertex)[1] < Len(Annotations)
    THEN LET ann_idx == Unwrap(dragging_vertex)[1]
             vertex_idx == Unwrap(dragging_vertex)[2]
         IN  /\ history' = save_to_history(Annotations)
             /\ project' = WithAnnotations(
                    [Annotations EXCEPT
                        ![ann_idx + 1] = update_vertex(@, vertex_idx, point)])
    ELSE UNCHANGED <<project, history>>

\* update, CanvasAction::DragVertex(point)
handle_drag_vertex(point) ==
    IF /\ IsSome(dragging_vertex)
       /\ IsSome(project)
       /\ Unwrap(dragging_vertex)[1] < Len(Annotations)
    THEN LET ann_idx == Unwrap(dragging_vertex)[1]
             vertex_idx == Unwrap(dragging_vertex)[2]
         IN  /\ project' = WithAnnotations(
                    [Annotations EXCEPT
                        ![ann_idx + 1] = update_vertex(@, vertex_idx, point)])
             /\ UNCHANGED history
    ELSE UNCHANGED <<project, history>>

\* update, CanvasAction::StopDragging
handle_stop_dragging == dragging_vertex' = None

(***************************************************************************)
(* What the panels offer in a frame.                                       *)
(***************************************************************************)
\* update polls the channel before it handles any input of the frame: an input
\* is handled only in a frame whose poll found nothing.
PollReady == IsSome(image_loader) /\ IsSome(channel)

\* A canvas shown whether or not a load is outstanding.
CanvasShown_always == TRUE

\* app.rs, central panel: the canvas is shown only when no load is outstanding.
CanvasShown == IsNone(loading_message)

\* canvas.rs: mouse interaction needs the texture and the image size.
ImageShown == IsSome(image_texture) /\ IsSome(image_size)

\* canvas.rs: a click inside the image with a drawing tool.
EmitAddVertex == CanvasShown /\ ImageShown /\ current_tool # "Select"

\* canvas.rs: a double click inside the image with the Polygon tool.
EmitFinishAnnotation == CanvasShown /\ ImageShown /\ current_tool = "Polygon"

\* Select tool: a click on an existing annotation.
EmitSelectAnnotation(idx) ==
    CanvasShown /\ ImageShown /\ current_tool = "Select" /\ idx < Len(Annotations)

\* Select tool: a click on empty canvas.
EmitDeselectAnnotation == CanvasShown /\ ImageShown /\ current_tool = "Select"

\* Select tool: a press on a vertex of an existing annotation.
EmitStartDraggingVertex(ann_idx, vertex_idx) ==
    /\ CanvasShown /\ ImageShown /\ current_tool = "Select"
    /\ ann_idx < Len(Annotations)
    /\ vertex_idx < Len(At(Annotations, ann_idx).vertices)

\* A pointer move / a release while a drag target is recorded.
EmitDragVertex == CanvasShown /\ ImageShown /\ IsSome(dragging_vertex)
EmitStopDragging == CanvasShown /\ ImageShown /\ IsSome(dragging_vertex)

\* The names typed into the Name field of the properties panel.
TypedNames == {<<"region", 2>>}

\* properties.rs: the list offers each annotation; Delete only under the selected one.
EmitPanelSelect(idx) == IsSome(project) /\ idx < Len(Annotations)
EmitPanelDelete(idx) ==
    IsSome(project) /\ idx < Len(Annotations) /\ selected_annotation = Some(idx)

(***************************************************************************)
(* Where the bounds stop the model.                                        *)
(***************************************************************************)
HistoryRoom == Len(history.undo_stack) < MaxHistory
WouldCommit ==
    /\ IsSome(in_progress_annotation)
    /\ vertex_count(Unwrap(in_progress_annotation)) >= 2
    /\ IsSome(project)
CommitRoom ==
    WouldCommit =>
        /\ HistoryRoom
        /\ Len(Annotations) < MaxAnnotations
        /\ annotation_counter < MaxCounter
VertexRoom ==
    IsSome(in_progress_annotation) =>
        vertex_count(Unwrap(in_progress_annotation)) < MaxVertices
DeleteRoom(idx) == (IsSome(project) /\ idx < Len(Annotations)) => HistoryRoom
SelectedDeleteRoom ==
    IsSome(selected_annotation) => DeleteRoom(Unwrap(selected_annotation))
EscapeRoom ==
    (current_tool = "Line" /\ IsSome(in_progress_annotation)) => CommitRoom
LoadRoom == load_seq < MaxLoads

AnnIdx == 0..(MaxAnnotations - 1)
VtxIdx == 0..(MaxVertices - 1)

Driver ==
    /\ UNCHANGED <<hist_arg, hist_ret, hist_got, hist_cleared, disk, codec, probe,
                   drag_target>>
    /\ trail' = <<>>

\* The same for the two steps that begin and end a drag.
DragDriver ==
    /\ UNCHANGED <<hist_arg, hist_ret, hist_got, hist_cleared, disk, codec, probe>>
    /\ trail' = <<>>

\* The same for an undo or a redo step: `op` is remembered with the collection
\* and the stacks it starts from when it acts.
StepDriver(op, acts) ==
    /\ UNCHANGED <<hist_arg, hist_ret, hist_got, hist_cleared, disk, codec, probe,
                   drag_target>>
    /\ trail' = IF acts
                THEN LET from == [op |-> op, annotations |-> Annotations,
                                  undo_stack |-> history.undo_stack,
                                  redo_stack |-> history.redo_stack]
                     IN  IF trail = <<>> THEN <<from>> ELSE <<Last(trail), from>>
                ELSE <<>>

\* last_action of the steps of a drag.
DragSteps == {"StartDraggingVertex", "DragVertex", "StopDragging"}

\* last_action of a finish: what the in-progress annotation was when it ran.
FinishCase ==
    IF IsNone(in_progress_annotation) THEN "FinishIdle"
    ELSE IF vertex_count(Unwrap(in_progress_annotation)) >= 2 /\ IsSome(project)
         THEN "FinishCommit" ELSE "FinishDiscard"

\* last_action of a delete: what the selection was when it ran.
DeleteCase ==
    IF IsNone(selected_annotation) THEN "DeleteNoSelection"
    ELSE IF IsSome(project) /\ Unwrap(selected_annotation) < Len(Annotations)
         THEN "Delete" ELSE "DeleteStale"
Loader == <<image_loader, loading_message, channel, workers, load_seq>>

(***************************************************************************)
(* The events of a session, one per handler of update.                     *)
(***************************************************************************)
\* File > Open Image...
OpenImage(path) ==
    /\ ~PollReady
    /\ start_load([kind |-> "image", path |-> path])
    /\ last_action' = "OpenImage"
    /\ UNCHANGED <<current_tool, project, selected_annotation, image_texture,
                   image_size, in_progress_annotation, annotation_counter,
                   dragging_vertex, history>>
    /\ drag_origin' = None
    /\ Driver

\* File > Load Annotations...
LoadAnnotations(file) ==
    /\ ~PollReady
    /\ start_load([kind |-> "import", path |-> file.path])
    /\ last_action' = "LoadAnnotations"
    /\ UNCHANGED <<current_tool, project, selected_annotation, image_texture,
                   image_size, in_progress_annotation, annotation_counter,
                   dragging_vertex, history>>
    /\ drag_origin' = None
    /\ Driver

\* A completion delivered whichever receiver the controller holds.
WorkerSend_delivers_stale(w) ==
    /\ w \in workers
    /\ w.job.kind = "import" => IsSome(w.parsed)
    /\ workers' = workers \ {w}
    /\ channel' = IF IsSome(image_loader)
                  THEN Some(worker_result(w)) ELSE channel
    /\ last_action' = "WorkerSend"
    /\ UNCHANGED <<current_tool, project, selected_annotation, image_texture,
                   image_size, in_progress_annotation, annotation_counter,
                   dragging_vertex, history, image_loader, loading_message, load_seq>>
    /\ drag_origin' = None
    /\ Driver

\* The thread of import_annotations reads and parses its annotation file; the
\* image is loaded and the result sent later.
WorkerRead(w) ==
    /\ w \in workers
    /\ w.job.kind = "import" /\ IsNone(w.parsed)
    /\ workers' = (workers \ {w})
                       \cup {[w EXCEPT !.parsed = Some(parse_annotations(w.job.path))]}
    /\ last_action' = "WorkerRead"
    /\ UNCHANGED <<current_tool, project, selected_annotation, image_texture,
                   image_size, in_progress_annotation, annotation_counter,
                   dragging_vertex, history, image_loader, loading_message,
                   channel, load_seq>>
    /\ drag_origin' = None
    /\ Driver

\* A background thread finishes: the image is loaded (for an import, the one
\* the file read earlier refers to) and sender.send(result); the result is lost
\* when its receiver has been replaced or dropped.
WorkerSend(w) ==
    /\ w \in workers
    /\ w.job.kind = "import" => IsSome(w.parsed)
    /\ workers' = workers \ {w}
    /\ channel' = IF image_loader = Some(w.chan)
                  THEN Some(worker_result(w)) ELSE channel
    /\ last_action' = "WorkerSend"
    /\ UNCHANGED <<current_tool, project, selected_annotation, image_texture,
                   image_size, in_progress_annotation, annotation_counter,
                   dragging_vertex, history, image_loader, loading_message, load_seq>>
    /\ drag_origin' = None
    /\ Driver

\* update: the poll at the start of a frame finds a result.
PollLoad ==
    /\ PollReady
    /\ poll_completed
    /\ last_action' = IF Unwrap(channel).ok THEN "LoadInstalled" ELSE "LoadFailed"
    /\ UNCHANGED <<current_tool, selected_annotation, in_progress_annotation,
                   dragging_vertex, history, workers, load_seq>>
    /\ drag_origin' = None
    /\ Driver

\* File > Export Annotations > Export as YAML... / Export as JSON...
ExportAnnotations(path) ==
    /\ ~PollReady
    /\ export_annotations(path)
    /\ last_action' = "ExportAnnotations"
    /\ UNCHANGED <<current_tool, project, selected_annotation, image_texture,
                   image_size, in_progress_annotation, annotation_counter,
                   dragging_vertex, history, image_loader, loading_message,
                   channel, load_seq>>
    /\ drag_origin' = None
    /\ UNCHANGED <<hist_arg, hist_ret, hist_got, hist_cleared, codec, probe, drag_target>>
    /\ trail' = <<>>

\* toolbar.rs
SelectTool(t) ==
    /\ ~PollReady
    /\ current_tool' = t
    /\ last_action' = "SelectTool"
    /\ UNCHANGED <<project, selected_annotation, image_texture, image_size,
                   in_progress_annotation, annotation_counter, dragging_vertex,
                   history, Loader>>
    /\ drag_origin' = None
    /\ Driver

\* Edit > Undo (the button is enabled by can_undo)
MenuUndo ==
    /\ ~PollReady /\ can_undo(history)
    /\ controller_undo
    /\ last_action' = "Undo"
    /\ UNCHANGED <<current_tool, image_texture, image_size, in_progress_annotation,
                   annotation_counter, dragging_vertex, Loader>>
    /\ drag_origin' = IF last_action \in DragSteps THEN drag_origin ELSE None
    /\ StepDriver("Undo", can_undo(history) /\ IsSome(project))

\* Edit > Redo (the button is enabled by can_redo)
MenuRedo ==
    /\ ~PollReady /\ can_redo(history)
    /\ controller_redo
    /\ last_action' = "Redo"
    /\ UNCHANGED <<current_tool, image_texture, image_size, in_progress_annotation,
                   annotation_counter, dragging_vertex, Loader>>
    /\ drag_origin' = None
    /\ StepDriver("Redo", can_redo(history) /\ IsSome(project))

\* Edit > Delete Selected (the button is enabled by a selection)
MenuDelete ==
    /\ ~PollReady /\ IsSome(selected_annotation)
    /\ delete_annotation(Unwrap(selected_annotation))
    /\ last_action' = DeleteCase
    /\ UNCHANGED <<current_tool, image_texture, image_size, in_progress_annotation,
                   annotation_counter, dragging_vertex, Loader>>
    /\ drag_origin' = None
    /\ Driver

\* PropertiesAction::SelectAnnotation(idx)
PanelSelect(idx) ==
    /\ ~PollReady /\ EmitPanelSelect(idx)
    /\ selected_annotation' = Some(idx)
    /\ last_action' = "SelectAnnotation"
    /\ UNCHANGED <<current_tool, project, image_texture, image_size,
                   in_progress_annotation, annotation_counter, dragging_vertex,
                   history, Loader>>
    /\ drag_origin' = None
    /\ Driver

\* properties.rs, the Name field under "Properties": the text typed there is
\* written into the name of the selected annotation; no snapshot is pushed.
PanelRename(name) ==
    /\ ~PollReady
    /\ IsSome(selected_annotation) /\ IsSome(project)
    /\ Unwrap(selected_annotation) < Len(Annotations)
    /\ At(Annotations, Unwrap(selected_annotation)).name # name
    /\ project' = WithAnnotations(
                      [Annotations EXCEPT ![Unwrap(selected_annotation) + 1].name = name])
    /\ last_action' = "Rename"
    /\ UNCHANGED <<current_tool, selected_annotation, image_texture, image_size,
                   in_progress_annotation, annotation_counter, dragging_vertex,
                   history, Loader>>
    /\ drag_origin' = None
    /\ Driver

\* PropertiesAction::DeleteAnnotation(idx)
PanelDelete(idx) ==
    /\ ~PollReady /\ EmitPanelDelete(idx)
    /\ delete_annotation(idx)
    /\ last_action' = DeleteCase
    /\ UNCHANGED <<current_tool, image_texture, image_size, in_progress_annotation,
                   annotation_counter, dragging_vertex, Loader>>
    /\ drag_origin' = None
    /\ Driver

\* Escape: finishes a Line in progress, otherwise cancels and deselects.
KeyEscape ==
    /\ ~PollReady
    /\ IF current_tool = "Line" /\ IsSome(in_progress_annotation)
       THEN /\ finish_annotation
            /\ last_action' = FinishCase
            /\ UNCHANGED selected_annotation
       ELSE /\ cancel_annotation
            /\ selected_annotation' = None
            /\ last_action' = "Cancel"
            /\ UNCHANGED <<history, project, annotation_counter>>
    /\ UNCHANGED <<current_tool, image_texture, image_size, dragging_vertex, Loader>>
    /\ drag_origin' = None
    /\ Driver

\* Delete / Backspace, when no text field wants the keyboard.
KeyDelete ==
    /\ ~PollReady
    /\ IF IsSome(selected_annotation)
       THEN /\ delete_annotation(Unwrap(selected_annotation))
       ELSE UNCHANGED <<history, project, selected_annotation>>
    /\ last_action' = DeleteCase
    /\ UNCHANGED <<current_tool, image_texture, image_size, in_progress_annotation,
                   annotation_counter, dragging_vertex, Loader>>
    /\ drag_origin' = None
    /\ Driver

\* Ctrl+Z, when no text field wants the keyboard.
KeyUndo ==
    /\ ~PollReady
    /\ IF can_undo(history)
       THEN controller_undo
       ELSE UNCHANGED <<history, project, selected_annotation>>
    /\ last_action' = "Undo"
    /\ UNCHANGED <<current_tool, image_texture, image_size, in_progress_annotation,
                   annotation_counter, dragging_vertex, Loader>>
    /\ drag_origin' = IF last_action \in DragSteps THEN drag_origin ELSE None
    /\ StepDriver("Undo", can_undo(history) /\ IsSome(project))

\* Ctrl+Shift+Z or Ctrl+Y, when no text field wants the keyboard.
KeyRedo ==
    /\ ~PollReady
    /\ IF can_redo(history)
       THEN controller_redo
       ELSE UNCHANGED <<history, project, selected_annotation>>
    /\ last_action' = "Redo"
    /\ UNCHANGED <<current_tool, image_texture, image_size, in_progress_annotation,
                   annotation_counter, dragging_vertex, Loader>>
    /\ drag_origin' = None
    /\ StepDriver("Redo", can_redo(history) /\ IsSome(project))

\* CanvasAction::AddVertex(point)
AddVertex(point) ==
    /\ ~PollReady /\ EmitAddVertex
    /\ handle_add_vertex(point)
    /\ last_action' = "AddVertex"
    /\ UNCHANGED <<current_tool, project, selected_annotation, image_texture,
                   image_size, annotation_counter, dragging_vertex, history, Loader>>
    /\ drag_origin' = None
    /\ Driver

\* CanvasAction::FinishAnnotation
FinishAnnotation ==
    /\ ~PollReady /\ EmitFinishAnnotation
    /\ finish_annotation
    /\ last_action' = FinishCase
    /\ UNCHANGED <<current_tool, selected_annotation, image_texture, image_size,
                   dragging_vertex, Loader>>
    /\ drag_origin' = None
    /\ Driver

\* CanvasAction::SelectAnnotation(idx)
SelectAnnotation(idx) ==
    /\ ~PollReady /\ EmitSelectAnnotation(idx)
    /\ selected_annotation' = Some(idx)
    /\ last_action' = "SelectAnnotation"
    /\ UNCHANGED <<current_tool, project, image_texture, image_size,
                   in_progress_annotation, annotation_counter, dragging_vertex,
                   history, Loader>>
    /\ drag_origin' = None
    /\ Driver

\* CanvasAction::DeselectAnnotation
DeselectAnnotation ==
    /\ ~PollReady /\ EmitDeselectAnnotation
    /\ selected_annotation' = None
    /\ last_action' = "DeselectAnnotation"
    /\ UNCHANGED <<current_tool, project, image_texture, image_size,
                   in_progress_annotation, annotation_counter, dragging_vertex,
                   history, Loader>>
    /\ drag_origin' = None
    /\ Driver

\* CanvasAction::StartDraggingVertex(ann_idx, vertex_idx)
StartDraggingVertex(ann_idx, vertex_idx) ==
    /\ ~PollReady /\ EmitStartDraggingVertex(ann_idx, vertex_idx)
    /\ handle_start_dragging(ann_idx, vertex_idx)
    /\ last_action' = "StartDraggingVertex"
    /\ UNCHANGED <<current_tool, project, image_texture, image_size,
                   in_progress_annotation, annotation_counter, Loader>>
    /\ drag_origin' = Some(Annotations)
    /\ drag_target' = IF ann_idx < Len(Annotations)
                      THEN Some(At(Annotations, ann_idx).name) ELSE None
    /\ DragDriver

\* CanvasAction::DragVertex(point)
DragVertex(point) ==
    /\ ~PollReady /\ EmitDragVertex
    /\ handle_drag_vertex(point)
    /\ last_action' = "DragVertex"
    /\ UNCHANGED <<current_tool, selected_annotation, image_texture, image_size,
                   in_progress_annotation, annotation_counter, dragging_vertex,
                   Loader>>
    /\ drag_origin' = IF last_action \in DragSteps THEN drag_origin ELSE None
    /\ Driver

\* CanvasAction::StopDragging
StopDragging ==
    /\ ~PollReady /\ EmitStopDragging
    /\ handle_stop_dragging
    /\ last_action' = "StopDragging"
    /\ UNCHANGED <<current_tool, project, selected_annotation, image_texture,
                   image_size, in_progress_annotation, annotation_counter,
                   history, Loader>>
    /\ drag_origin' = IF last_action \in DragSteps THEN drag_origin ELSE None
    /\ drag_target' = None
    /\ DragDriver

Next ==
    \/ \E path \in ImagePaths : LoadRoom /\ OpenImage(path)
    \/ \E file \in FoundFiles \cup disk :
           LoadRoom /\ LoadAnnotations(file)
    \/ \E path \in ExportPaths : ExportAnnotations(path)
    \/ \E w \in workers : WorkerRead(w)
    \/ \E w \in workers : WorkerSend(w)
    \/ PollLoad
    \/ \E t \in Tool : SelectTool(t)
    \/ MenuUndo
    \/ MenuRedo
    \/ SelectedDeleteRoom /\ MenuDelete
    \/ \E idx \in AnnIdx : PanelSelect(idx)
    \/ \E name \in TypedNames : PanelRename(name)
    \/ \E idx \in AnnIdx : DeleteRoom(idx) /\ PanelDelete(idx)
    \/ EscapeRoom /\ KeyEscape
    \/ SelectedDeleteRoom /\ KeyDelete
    \/ KeyUndo
    \/ KeyRedo
    \/ \E point \in ClickPoints : VertexRoom /\ AddVertex(point)
    \/ CommitRoom /\ FinishAnnotation
    \/ \E idx \in AnnIdx : SelectAnnotation(idx)
    \/ DeselectAnnotation
    \/ \E a \in AnnIdx, v \in VtxIdx : HistoryRoom /\ StartDraggingVertex(a, v)
    \/ \E point \in DragPoints : DragVertex(point)
    \/ StopDragging

Spec == Init /\ [][Next]_vars

(***************************************************************************)
(* Sessions.  Spec is every event of update; the sessions below restrict   *)
(* the user to the events of one activity, after a single load.            *)
(***************************************************************************)
FirstLoad == load_seq = 0

\* A drawing session: open an image, pick tools, click, finish, cancel, undo, redo.
NextDraw ==
    \/ \E path \in ImagePaths : FirstLoad /\ OpenImage(path)
    \/ \E w \in workers : WorkerSend(w)
    \/ PollLoad
    \/ \E t \in Tool : SelectTool(t)
    \/ \E point \in ClickPoints : VertexRoom /\ AddVertex(point)
    \/ CommitRoom /\ FinishAnnotation
    \/ EscapeRoom /\ KeyEscape
    \/ KeyUndo
    \/ KeyRedo

SpecDraw == Init /\ [][NextDraw]_vars

\* An editing session with the Select tool: load an annotation file, select,
\* drag vertices, delete, undo, redo.
NextEdit ==
    \/ \E file \in AnnotationFiles : FirstLoad /\ LoadAnnotations(file)
    \/ \E w \in workers : WorkerRead(w)
    \/ \E w \in workers : WorkerSend(w)
    \/ PollLoad
    \/ MenuUndo
    \/ MenuRedo
    \/ SelectedDeleteRoom /\ MenuDelete
    \/ \E idx \in AnnIdx : PanelSelect(idx)
    \/ \E idx \in AnnIdx : DeleteRoom(idx) /\ PanelDelete(idx)
    \/ EscapeRoom /\ KeyEscape
    \/ SelectedDeleteRoom /\ KeyDelete
    \/ KeyUndo
    \/ KeyRedo
    \/ \E idx \in AnnIdx : SelectAnnotation(idx)
    \/ DeselectAnnotation
    \/ \E a \in AnnIdx, v \in VtxIdx : HistoryRoom /\ StartDraggingVertex(a, v)
    \/ \E point \in DragPoints : DragVertex(point)
    \/ StopDragging

SpecEdit == Init /\ [][NextEdit]_vars

\* A create-then-edit session on an opened image: one annotation is drawn and
\* committed, then selected, dragged, deleted and undone.
FirstDrawing == annotation_counter = 0
FirstCommit == WouldCommit => FirstDrawing
LifoRoom == Len(history.undo_stack) < MaxLifoHistory
NextLifo ==
    \/ \E path \in ImagePaths : FirstLoad /\ OpenImage(path)
    \/ \E w \in workers : WorkerSend(w)
    \/ PollLoad
    \/ \E t \in {"Select", "Polygon"} : SelectTool(t)
    \/ \E point \in ClickPoints : FirstDrawing /\ VertexRoom /\ AddVertex(point)
    \/ FirstCommit /\ FinishAnnotation
    \/ \E idx \in AnnIdx : SelectAnnotation(idx)
    \/ \E a \in AnnIdx, v \in VtxIdx : LifoRoom /\ StartDraggingVertex(a, v)
    \/ \E point \in DragPoints : DragVertex(point)
    \/ StopDragging
    \/ LifoRoom /\ KeyDelete
    \/ KeyUndo

SpecLifo == Init /\ [][NextLifo]_vars

\* A session of several loads, each started after the one before it has
\* completed: images are opened and annotation files imported, and between
\* the loads annotations are selected, dragged, deleted and undone.
NoLoadPending == IsNone(image_loader)
ReloadRoom == Len(history.undo_stack) < MaxReloadHistory
ReloadDeleteRoom == (DeleteCase = "Delete") => ReloadRoom
NextReload ==
    \/ \E path \in ImagePaths : LoadRoom /\ NoLoadPending /\ OpenImage(path)
    \/ \E file \in AnnotationFiles : LoadRoom /\ NoLoadPending /\ LoadAnnotations(file)
    \/ \E w \in workers : WorkerRead(w)
    \/ \E w \in workers : WorkerSend(w)
    \/ PollLoad
    \/ \E idx \in AnnIdx : PanelSelect(idx)
    \/ ReloadDeleteRoom /\ KeyDelete
    \/ \E a \in AnnIdx, v \in VtxIdx : ReloadRoom /\ StartDraggingVertex(a, v)
    \/ \E point \in DragPoints : DragVertex(point)
    \/ StopDragging
    \/ KeyUndo

SpecReload == Init /\ [][NextReload]_vars

\* Loads only: images are opened and annotation files imported, each possibly
\* while earlier loads are still pending, and the worker threads finish in
\* any order.
NextRace ==
    \/ \E path \in ImagePaths : LoadRoom /\ OpenImage(path)
    \/ \E file \in AnnotationFiles : LoadRoom /\ LoadAnnotations(file)
    \/ \E w \in workers : WorkerRead(w)
    \/ \E w \in workers : WorkerSend(w)
    \/ PollLoad

SpecRace == Init /\ [][NextRace]_vars

\* Every job a load can hand to a background thread.
\* Overlapping loads under fair scheduling: every background thread that was
\* spawned runs to its send (the closure ends in sender.send on every path), and
\* update runs again while loading_message is set (it requests a repaint), so a
\* result waiting in the channel is polled; the toolbar stays usable meanwhile.
NextLive ==
    \/ NextRace
    \/ \E t \in Tool : SelectTool(t)

SpecLive ==
    /\ Init /\ [][NextLive]_vars
    /\ WF_vars(PollLoad)
    /\ \A n \in 1..(MaxLoads + 1) :
           /\ WF_vars(\E w \in workers : w.chan = n /\ WorkerRead(w))
           /\ WF_vars(\E w \in workers : w.chan = n /\ WorkerSend(w))

\* A drawing and editing session interrupted by loads: a second image can be
\* opened while an image is shown and an annotation is in progress.
NextLoading ==
    \/ \E path \in ImagePaths : LoadRoom /\ OpenImage(path)
    \/ \E w \in workers : WorkerSend(w)
    \/ PollLoad
    \/ \E t \in Tool : SelectTool(t)
    \/ \E point \in ClickPoints : FirstDrawing /\ VertexRoom /\ AddVertex(point)
    \/ FirstCommit /\ FinishAnnotation
    \/ \E idx \in AnnIdx : SelectAnnotation(idx)
    \/ DeselectAnnotation
    \/ \E a \in AnnIdx, v \in VtxIdx : HistoryRoom /\ StartDraggingVertex(a, v)
    \/ \E point \in DragPoints : DragVertex(point)
    \/ StopDragging
    \/ EscapeRoom /\ KeyEscape

SpecLoading == Init /\ [][NextLoading]_vars

\* Import and export: files are loaded one at a time and exported under any
\* name, also while a load is pending; a file that an export wrote can be
\* loaded like one found on disk; annotations are renamed in the panel.
NextFiles ==
    \/ LoadRoom /\ NoLoadPending /\ OpenImage("ok.png")
    \/ \E file \in FoundFiles \cup disk :
           LoadRoom /\ NoLoadPending /\ LoadAnnotations(file)
    \/ \E w \in workers : WorkerRead(w)
    \/ \E w \in workers : WorkerSend(w)
    \/ PollLoad
    \/ \E path \in ExportPaths : ExportAnnotations(path)
    \/ \E idx \in AnnIdx : PanelSelect(idx)
    \/ \E name \in TypedNames : PanelRename(name)

SpecFiles == Init /\ [][NextFiles]_vars

(***************************************************************************)
(* History on its own: a driver that calls push, undo and redo the way a   *)
(* unit test does, the RoidsApp fields left as constructed.                *)
(***************************************************************************)
\* The collection holding one annotation named "region n"; Snap(0) is empty.
Snap(n) ==
    IF n = 0 THEN <<>>
    ELSE <<[name |-> <<"region", n>>, annotation_type |-> Polygon,
            vertices |-> <<P0, P1>>]>>
SnapNo(snapshot) == IF snapshot = <<>> THEN 0 ELSE snapshot[1].name[2]

\* The collections the driver passes in the arbitrary-call run.
DriverSnapshots == {Snap(0), Snap(1), Snap(2)}

DriverPush(snapshot) ==
    /\ history' = History_push(history, snapshot)
    /\ hist_arg' = snapshot
    /\ hist_ret' = None
    /\ hist_got' = <<>>
    /\ hist_cleared' = history.redo_stack
    /\ last_action' = "push"
    /\ UNCHANGED appvars

DriverUndo(current) ==
    LET r == History_undo(history, current)
    IN  /\ history' = r.h
        /\ hist_arg' = current
        /\ hist_ret' = r.ret
        /\ hist_got' = IF IsSome(r.ret) THEN Append(hist_got, Unwrap(r.ret)) ELSE hist_got
        /\ hist_cleared' = <<>>
        /\ last_action' = "undo"
        /\ UNCHANGED appvars

DriverRedo(current) ==
    LET r == History_redo(history, current)
    IN  /\ history' = r.h
        /\ hist_arg' = current
        /\ hist_ret' = r.ret
        /\ hist_got' = <<>>
        /\ hist_cleared' = <<>>
        /\ last_action' = "redo"
        /\ UNCHANGED appvars

StackRoom == Len(history.undo_stack) + Len(history.redo_stack) < MaxStack

\* Arbitrary calls with arbitrary arguments, the stacks kept short.
NextHistory ==
    \/ \E snapshot \in DriverSnapshots : StackRoom /\ DriverPush(snapshot)
    \/ \E current \in DriverSnapshots : DriverUndo(current)
    \/ \E current \in DriverSnapshots : DriverRedo(current)

SpecHistory == Init /\ [][NextHistory]_vars

\* The filling run: push, undo and redo in any order with no bound on the number
\* of calls, so that the stacks grow until max_size stops them.
NextFill ==
    \/ DriverPush(Snap(1))
    \/ DriverUndo(Snap(1))
    \/ DriverRedo(Snap(1))

SpecFill == Init /\ [][NextFill]_vars

\* The capacity run: push Snap(1), Snap(2), ... up to MaxPushes snapshots, then
\* undo until nothing is returned.
Pushed == SnapNo(hist_arg)
NextCap ==
    \/ /\ last_action \in {"new", "push"}
       /\ Pushed < MaxPushes
       /\ DriverPush(Snap(Pushed + 1))
    \/ /\ last_action \in {"push", "undo"}
       /\ last_action = "undo" => IsSome(hist_ret)
       /\ DriverUndo(hist_arg)

SpecCap == Init /\ [][NextCap]_vars

(***************************************************************************)
(* The codecs on their own: a driver that exports a project and imports    *)
(* the text it wrote, the RoidsApp fields left as constructed.             *)
(***************************************************************************)
\* Sequences over S of at most n items.
SeqUpTo(S, n) == UNION {[1..m -> S] : m \in 0..n}

\* The projects given to the codec.  Coordinates cover a fraction with a
\* leading zero ("0.01"), a negative one ("-0.5"), a zero ("0.0"), a value
\* above one ("1.26"), one of 17 digits ("0.38120423768821243") and one
\* written with an exponent ("1e-7").
CodecPoints ==
    {Hundredths(1, 0 - 50), Hundredths(0, 126),
     Point_new(LongCoordinate, SmallCoordinate)}
\* Outlines of at most MaxCodecVertices vertices, no vertex repeated at once.
CodecOutlines ==
    {v \in SeqUpTo(CodecPoints, MaxCodecVertices) :
        \A i \in 1..(Len(v) - 1) : v[i] # v[i + 1]}
CodecAnnotations ==
    {[name |-> "roi", annotation_type |-> t, vertices |-> v] :
        t \in AnnotationType, v \in CodecOutlines}
CodecProjects ==
    {[media_file |-> "ok.png", frame_width |-> size[1], frame_height |-> size[2],
      annotations |-> anns] :
        size \in {<<0, 1>>, <<1920, 1080>>},
        anns \in SeqUpTo(CodecAnnotations, MaxCodecAnnotations)}

InitJson == NewApp /\ codec \in {[NoCall EXCEPT !.arg = Some(p)] : p \in CodecProjects}

CodecExportJson ==
    /\ IsSome(codec.arg)
    /\ IsNone(codec.text)
    /\ codec' = [codec EXCEPT !.text = Some(export_json(Unwrap(codec.arg)))]
    /\ last_action' = "export_json"
    /\ UNCHANGED <<current_tool, project, selected_annotation, image_texture,
                   image_size, in_progress_annotation, annotation_counter,
                   dragging_vertex, history, image_loader, loading_message,
                   channel, workers, load_seq, drag_origin, hist_arg, hist_ret,
                   hist_got, hist_cleared, disk, probe, drag_target, trail>>

CodecImportJson ==
    /\ IsSome(codec.text)
    /\ IsNone(codec.ret)
    /\ codec' = [codec EXCEPT !.ret = Some(import_json(Unwrap(codec.text)))]
    /\ last_action' = "import_json"
    /\ UNCHANGED <<current_tool, project, selected_annotation, image_texture,
                   image_size, in_progress_annotation, annotation_counter,
                   dragging_vertex, history, image_loader, loading_message,
                   channel, workers, load_seq, drag_origin, hist_arg, hist_ret,
                   hist_got, hist_cleared, disk, probe, drag_target, trail>>

NextJson == CodecExportJson \/ CodecImportJson

SpecJson == InitJson /\ [][NextJson]_vars

\* The project of one annotation with the vertices (0.1, 0.2), (0.3, 0.4).
InlineExample ==
    [media_file |-> "ok.png", frame_width |-> 1920, frame_height |-> 1080,
     annotations |->
        <<[name |-> "roi", annotation_type |-> Polygon,
           vertices |-> <<Hundredths(10, 20), Hundredths(30, 40)>>]>>]

InitYaml ==
    /\ NewApp
    /\ codec \in {[NoCall EXCEPT !.arg = Some(p)] : p \in CodecProjects \cup {InlineExample}}

CodecExportYaml ==
    /\ IsSome(codec.arg)
    /\ IsNone(codec.text)
    /\ codec' = [codec EXCEPT !.text = Some(export_yaml(Unwrap(codec.arg)))]
    /\ last_action' = "export_yaml"
    /\ UNCHANGED <<current_tool, project, selected_annotation, image_texture,
                   image_size, in_progress_annotation, annotation_counter,
                   dragging_vertex, history, image_loader, loading_message,
                   channel, workers, load_seq, drag_origin, hist_arg, hist_ret,
                   hist_got, hist_cleared, disk, probe, drag_target, trail>>

CodecImportYaml ==
    /\ IsSome(codec.text)
    /\ IsNone(codec.ret)
    /\ codec' = [codec EXCEPT !.ret = Some(import_yaml(Unwrap(codec.text)))]
    /\ last_action' = "import_yaml"
    /\ UNCHANGED <<current_tool, project, selected_annotation, image_texture,
                   image_size, in_progress_annotation, annotation_counter,
                   dragging_vertex, history, image_loader, loading_message,
                   channel, workers, load_seq, drag_origin, hist_arg, hist_ret,
                   hist_got, hist_cleared, disk, probe, drag_target, trail>>

NextYaml == CodecExportYaml \/ CodecImportYaml

SpecYaml == InitYaml /\ [][NextYaml]_vars

\* The converter on its own.  The lines a text is made of: a "vertices:" key, the
\* two lines of a coordinate pair in block style ("- - 1.0", "- 2.0"), an item
\* that is a negative number ("- -5"), an item that is a word with a dash in
\* front ("- -foo"), a key that ends in "vertices" ("my_vertices:"), an item
\* that is a mapping ("- x: 3.0", what serde_yaml writes for a Point) and a
\* line that is no item.
MaxTextLines == 3
FlowLines ==
    { TextLine(2, yaml_key("vertices")),
      TextLine(2, <<Punct("-"), Punct("-"), format_f64(f64_literal(1, 0))>>),
      TextLine(4, <<Punct("-"), format_f64(f64_literal(2, 0))>>),
      TextLine(2, <<Punct("-"), Neg(format_u32(5))>>),
      TextLine(2, <<Punct("-"), Plain("-foo")>>),
      TextLine(2, yaml_key("my_vertices")),
      TextLine(2, <<Punct("-")>> \o yaml_key("x") \o <<format_f64(f64_literal(3, 0))>>),
      TextLine(2, yaml_key("name") \o <<Plain("roi")>>) }

InitFlow ==
    NewApp /\ codec \in {[NoCall EXCEPT !.arg = Some(t)] : t \in SeqUpTo(FlowLines, MaxTextLines)}

\* convert_vertices_to_flow_style(arg): the text returned, or the panic.
CodecConvert ==
    /\ IsSome(codec.arg)
    /\ IsNone(codec.ret)
    /\ codec' = IF convert_panics(Unwrap(codec.arg))
                THEN [codec EXCEPT !.ret = Some("panicked")]
                ELSE [codec EXCEPT !.ret = Some("returned"),
                                   !.text = Some(convert_vertices_to_flow_style(Unwrap(codec.arg)))]
    /\ last_action' = "convert"
    /\ UNCHANGED <<current_tool, project, selected_annotation, image_texture,
                   image_size, in_progress_annotation, annotation_counter,
                   dragging_vertex, history, image_loader, loading_message,
                   channel, workers, load_seq, drag_origin, hist_arg, hist_ret,
                   hist_got, hist_cleared, disk, probe, drag_target, trail>>

NextFlow == CodecConvert

SpecFlow == InitFlow /\ [][NextFlow]_vars

(***************************************************************************)
(* The Annotation methods on their own: a driver that makes an annotation  *)
(* and calls its methods, the RoidsApp fields left as constructed.         *)
(* Coordinates and thresholds are multiples of a quarter, which f64 holds  *)
(* and squares exactly, hundredths, which it rounds, and the values of the *)
(* unit tests with the vertices the tests use them on.                     *)
(***************************************************************************)
\* The vertices given to add_vertex and update_vertex: (0, 0), (1, 0), (1, 1)
\* and (0.5, 0), and (0.01, 0), (0.03, 0) and (0.03, 0.02).  An annotation
\* is made of the first four or of the last three.
GridPoints ==
    {Hundredths(0, 0), Hundredths(100, 0), Hundredths(100, 100), Hundredths(50, 0)}
FinePoints == {Hundredths(1, 0), Hundredths(3, 0), Hundredths(3, 2)}
ProbePoints == GridPoints \cup FinePoints

\* The vertices are all of the kind of point.
SameGrid(vertices, point) ==
    \A j \in 1..Len(vertices) : (vertices[j] \in FinePoints) = (point \in FinePoints)

\* tests::test_find_nearest_vertex: the vertices and the search point (0.95, 0.05).
NearestTestVertices == <<Hundredths(0, 0), Hundredths(100, 0), Hundredths(100, 100)>>
NearestTestPoint == Hundredths(95, 5)

\* tests::test_find_vertex_within_threshold: the vertices, the search point
\* (0.52, 0.02) and the thresholds 0.05 and 0.01.
WithinTestVertices == <<Hundredths(0, 0), Hundredths(50, 0), Hundredths(100, 0)>>
WithinTestPoint == Hundredths(52, 2)
WithinTestThresholds == {f64_literal(5, 2), f64_literal(1, 2)}

\* The search points: (0.5, 0), (1, 0.5) and (0.5, 0.5), each at the same
\* distance of two or more of the first four vertices; and (0.02, 0), which
\* the decimals put at the same distance of (0.01, 0) and (0.03, 0),
\* (0.02, 0.01), at the same distance of (0.03, 0) and (0.03, 0.02), and
\* (0.07, 0), which the decimals put at 0.06 of (0.01, 0).
GridQueries == {Hundredths(50, 0), Hundredths(100, 50), Hundredths(50, 50)}
FineQueries == {Hundredths(2, 0), Hundredths(2, 1), Hundredths(7, 0)}
ProbeQueries == GridQueries \cup FineQueries

\* The thresholds: 0, 0.5 (the distance of (0.5, 0) to (0, 0)) and 1 for the
\* first three search points, 0.01 and 0.06 for the last three.
GridThresholds == {f64_literal(0, 0), f64_literal(5, 1), f64_literal(1, 0)}
FineThresholds == {f64_literal(1, 2), f64_literal(6, 2)}
ProbeThresholds == GridThresholds \cup FineThresholds

(***************************************************************************)
(* models/annotation.rs: the searches.  The squared distances and the      *)
(* squared thresholds of the values above are computed once.               *)
(***************************************************************************)
\* dx * dx + dy * dy
sum_of_squares(dx, dy) == f64_add(f64_mul(dx, dx), f64_mul(dy, dy))

Distances ==
    [pq \in ProbePoints \X (ProbeQueries \cup {NearestTestPoint, WithinTestPoint}) |->
        sum_of_squares(f64_sub(pq[1].x, pq[2].x), f64_sub(pq[1].y, pq[2].y))] @@ <<>>

\* Point::distance_squared
distance_squared(p, other) ==
    table_or(Distances, <<p, other>>,
             sum_of_squares(f64_sub(p.x, other.x), f64_sub(p.y, other.y)))

RECURSIVE nearest_scan_last_tie(_, _, _, _, _)
\* A scan that also replaces the nearest vertex on an equal distance.
nearest_scan_last_tie(vertices, point, i, min_distance, nearest_index) ==
    IF i >= Len(vertices) THEN nearest_index
    ELSE IF f64_le(distance_squared(vertices[i + 1], point), min_distance)
    THEN nearest_scan_last_tie(vertices, point, i + 1,
                               distance_squared(vertices[i + 1], point), i)
    ELSE nearest_scan_last_tie(vertices, point, i + 1, min_distance, nearest_index)

RECURSIVE nearest_scan(_, _, _, _, _)
\* The loop of find_nearest_vertex from vertex i on.
nearest_scan(vertices, point, i, min_distance, nearest_index) ==
    IF i >= Len(vertices) THEN nearest_index
    ELSE IF f64_lt(distance_squared(vertices[i + 1], point), min_distance)
    THEN nearest_scan(vertices, point, i + 1,
                      distance_squared(vertices[i + 1], point), i)
    ELSE nearest_scan(vertices, point, i + 1, min_distance, nearest_index)

find_nearest_vertex(a, point) ==
    IF a.vertices = <<>> THEN None
    ELSE Some(nearest_scan(a.vertices, point, 0, F64_MAX, 0))

RECURSIVE min_within_strict(_, _, _, _, _)
\* A filter that leaves out the vertices exactly at the threshold.
min_within_strict(vertices, point, threshold_sq, i, best) ==
    IF i >= Len(vertices) THEN best
    ELSE IF f64_lt(distance_squared(vertices[i + 1], point), threshold_sq)
            /\ (IsNone(best)
                \/ f64_gt(distance_squared(vertices[Unwrap(best) + 1], point),
                          distance_squared(vertices[i + 1], point)))
    THEN min_within_strict(vertices, point, threshold_sq, i + 1, Some(i))
    ELSE min_within_strict(vertices, point, threshold_sq, i + 1, best)

RECURSIVE min_within(_, _, _, _, _)
\* filter(distance_squared <= threshold_sq).min_by(distance_squared) from
\* vertex i on: min_by keeps the earlier of two items unless it compares
\* Greater.
min_within(vertices, point, threshold_sq, i, best) ==
    IF i >= Len(vertices) THEN best
    ELSE IF f64_le(distance_squared(vertices[i + 1], point), threshold_sq)
            /\ (IsNone(best)
                \/ f64_gt(distance_squared(vertices[Unwrap(best) + 1], point),
                          distance_squared(vertices[i + 1], point)))
    THEN min_within(vertices, point, threshold_sq, i + 1, Some(i))
    ELSE min_within(vertices, point, threshold_sq, i + 1, best)

Squares == [threshold \in ProbeThresholds \cup WithinTestThresholds |->
               f64_mul(threshold, threshold)] @@ <<>>

\* threshold * threshold
threshold_sq(threshold) == table_or(Squares, threshold, f64_mul(threshold, threshold))

find_vertex_within_threshold(a, point, threshold) ==
    min_within(a.vertices, point, threshold_sq(threshold), 0, None)

\* The fields every call of the driver sets anew.
ProbeCall(op) ==
    [probe EXCEPT !.op = op, !.point = None, !.index = 0,
                  !.threshold = f64_zero(FALSE),
                  !.found = None, !.ok = FALSE]

ProbeFrame ==
    UNCHANGED <<current_tool, project, selected_annotation, image_texture,
                image_size, in_progress_annotation, annotation_counter,
                dragging_vertex, history, image_loader, loading_message,
                channel, workers, load_seq, drag_origin, hist_arg, hist_ret,
                hist_got, hist_cleared, disk, codec, drag_target, trail>>

\* Annotation::new(name, annotation_type)
ProbeNew(annotation_type) ==
    /\ IsNone(probe.annotation)
    /\ probe' = [ProbeCall("new") EXCEPT
                   !.kind = annotation_type,
                   !.annotation = Some(Annotation_new("roi", annotation_type))]
    /\ last_action' = "new"
    /\ ProbeFrame

\* annotation.add_vertex(point)
ProbeAddVertex(point) ==
    /\ IsSome(probe.annotation)
    /\ vertex_count(Unwrap(probe.annotation)) < MaxProbeVertices
    /\ SameGrid(Unwrap(probe.annotation).vertices, point)
    /\ probe' = [ProbeCall("add_vertex") EXCEPT
                   !.annotation = Some(add_vertex(Unwrap(probe.annotation), point)),
                   !.added = IF probe.adds_only THEN Append(@, point) ELSE @,
                   !.point = Some(point)]
    /\ last_action' = "add_vertex"
    /\ ProbeFrame

\* annotation.remove_vertex(index)
ProbeRemoveVertex(index) ==
    /\ IsSome(probe.annotation)
    /\ probe' = [ProbeCall("remove_vertex") EXCEPT
                   !.annotation = Some(remove_vertex(Unwrap(probe.annotation), index)),
                   !.ok = remove_vertex_returns(Unwrap(probe.annotation), index),
                   !.added = <<>>,
                   !.adds_only = FALSE,
                   !.index = index]
    /\ last_action' = "remove_vertex"
    /\ ProbeFrame

\* annotation.update_vertex(index, new_position)
ProbeUpdateVertex(index, new_position) ==
    /\ IsSome(probe.annotation)
    /\ SameGrid(Unwrap(probe.annotation).vertices, new_position)
    /\ probe' = [ProbeCall("update_vertex") EXCEPT
                   !.annotation = Some(update_vertex(Unwrap(probe.annotation),
                                                     index, new_position)),
                   !.ok = update_vertex_returns(Unwrap(probe.annotation), index),
                   !.added = <<>>,
                   !.adds_only = FALSE,
                   !.index = index,
                   !.point = Some(new_position)]
    /\ last_action' = "update_vertex"
    /\ ProbeFrame

\* annotation.find_nearest_vertex(&point)
ProbeFindNearest(point) ==
    /\ IsSome(probe.annotation)
    /\ point = NearestTestPoint =>
           Unwrap(probe.annotation).vertices \in {<<>>, NearestTestVertices}
    /\ probe' = [ProbeCall("find_nearest_vertex") EXCEPT
                   !.found = find_nearest_vertex(Unwrap(probe.annotation), point),
                   !.point = Some(point)]
    /\ last_action' = "find_nearest_vertex"
    /\ ProbeFrame

\* annotation.find_vertex_within_threshold(&point, threshold)
ProbeFindWithin(point, threshold) ==
    /\ IsSome(probe.annotation)
    /\ (point = WithinTestPoint \/ threshold \in WithinTestThresholds \ FineThresholds) =>
           /\ Unwrap(probe.annotation).vertices = WithinTestVertices
           /\ point = WithinTestPoint
    /\ point = WithinTestPoint => threshold \in WithinTestThresholds
    /\ point \in GridQueries => threshold \in GridThresholds
    /\ point \in FineQueries => threshold \in FineThresholds
    /\ probe' = [ProbeCall("find_vertex_within_threshold") EXCEPT
                   !.found = find_vertex_within_threshold(Unwrap(probe.annotation),
                                                          point, threshold),
                   !.point = Some(point),
                   !.threshold = threshold]
    /\ last_action' = "find_vertex_within_threshold"
    /\ ProbeFrame

NextProbe ==
    \/ \E annotation_type \in AnnotationType : ProbeNew(annotation_type)
    \/ \E point \in ProbePoints : ProbeAddVertex(point)
    \/ \E index \in 0..MaxProbeVertices : ProbeRemoveVertex(index)
    \/ \E index \in 0..MaxProbeVertices, point \in ProbePoints :
           ProbeUpdateVertex(index, point)
    \/ \E point \in ProbeQueries \cup {NearestTestPoint} : ProbeFindNearest(point)
    \/ \E point \in ProbeQueries \cup {WithinTestPoint},
          threshold \in ProbeThresholds \cup WithinTestThresholds :
           ProbeFindWithin(point, threshold)

SpecProbe == Init /\ [][NextProbe]_vars

\* ---------------------------------------------------------------------------
\* Properties
\* ---------------------------------------------------------------------------

\* The steps that call finish_annotation: the canvas FinishAnnotation action
\* and Escape with the Line tool.
FinishTags == {"FinishIdle", "FinishCommit", "FinishDiscard"}

\* The steps that run a delete: Delete/Backspace, Edit > Delete Selected and
\* the properties panel's Delete.
DeleteTags == {"DeleteNoSelection", "Delete", "DeleteStale"}

\* Every snapshot of `stack` holds only annotations of at least two vertices.
AllComplete(stack) ==
    \A k \in 1..Len(stack) :
        \A j \in 1..Len(stack[k]) : vertex_count(stack[k][j]) >= 2

\* C1: finish_annotation on an in-progress annotation of at least 2 vertices,
\* with a project loaded, appends it as the last element of the collection,
\* raises the annotation count and annotation_counter by exactly one each,
\* clears the in-progress annotation, and leaves on top of the undo stack the
\* collection as it was immediately before the append (the redo stack is left
\* empty by that push).
C1_FinishCommits ==
    [][ ( /\ last_action' \in FinishTags
          /\ IsSome(in_progress_annotation)
          /\ vertex_count(Unwrap(in_progress_annotation)) >= 2
          /\ IsSome(project) )
        => ( /\ IsSome(project')
             /\ Len(Annotations') = Len(Annotations) + 1
             /\ Last(Annotations') = Unwrap(in_progress_annotation)
             /\ Front(Annotations') = Annotations
             /\ annotation_counter' = annotation_counter + 1
             /\ in_progress_annotation' = None
             /\ history'.undo_stack # <<>>
             /\ Last(history'.undo_stack) = Annotations
             /\ history'.redo_stack = <<>> ) ]_vars

\* A second commit has just happened: two annotations, and the top of the undo
\* stack is the one-annotation collection that preceded it.
C1_Witness ==
    /\ last_action = "FinishCommit"
    /\ IsSome(project)
    /\ Len(Annotations) = 2
    /\ Len(history.undo_stack) = 2
    /\ Last(history.undo_stack) = Front(Annotations)
    /\ annotation_counter = 2

\* C2: finish_annotation on an in-progress annotation of fewer than 2 vertices
\* discards it: the in-progress annotation becomes none while the project, its
\* annotation collection, annotation_counter and both history stacks are
\* unchanged.
C2_FinishDiscards ==
    [][ ( /\ last_action' \in FinishTags
          /\ IsSome(in_progress_annotation)
          /\ vertex_count(Unwrap(in_progress_annotation)) < 2 )
        => ( /\ in_progress_annotation' = None
             /\ project' = project
             /\ annotation_counter' = annotation_counter
             /\ history'.undo_stack = history.undo_stack
             /\ history'.redo_stack = history.redo_stack ) ]_vars

\* A discard has just happened in a session that holds an annotation and
\* entries on both history stacks.
C2_Witness ==
    /\ last_action = "FinishDiscard"
    /\ IsSome(project)
    /\ Annotations # <<>>
    /\ history.undo_stack # <<>>
    /\ history.redo_stack # <<>>
    /\ in_progress_annotation = None

\* C3: in every reachable state every annotation of the project's collection
\* and of every undo and redo snapshot has at least 2 vertices.
C3_CommittedAreComplete ==
    /\ IsSome(project) => AllComplete(<<Annotations>>)
    /\ AllComplete(history.undo_stack)
    /\ AllComplete(history.redo_stack)

\* C4: History.undo(current) on a non-empty undo stack removes exactly the top
\* undo entry, pushes `current` on top of the redo stack and returns the
\* removed entry; a redo that follows a successful undo returns the `current`
\* that undo was given.
C4_UndoContract ==
    [][ /\ ( last_action' = "undo" /\ history.undo_stack # <<>> )
           => ( /\ history'.undo_stack = Front(history.undo_stack)
                /\ history'.redo_stack = Append(history.redo_stack, hist_arg')
                /\ hist_ret' = Some(Last(history.undo_stack))
                /\ history'.max_size = history.max_size )
        /\ ( last_action = "undo" /\ IsSome(hist_ret) /\ last_action' = "redo" )
           => hist_ret' = Some(hist_arg) ]_vars

\* push(S1), push(S2), undo(S3) has just returned S2, with S1 = Snap(1),
\* S2 = Snap(2), S3 = Snap(0).
C4_Witness ==
    /\ last_action = "undo"
    /\ hist_arg = Snap(0)
    /\ hist_ret = Some(Snap(2))
    /\ history.undo_stack = <<Snap(1)>>
    /\ history.redo_stack = <<Snap(0)>>

\* C5: History.redo(current) on a non-empty redo stack removes exactly the top
\* redo entry, pushes `current` on top of the undo stack and returns the
\* removed entry.
C5_RedoContract ==
    [][ ( last_action' = "redo" /\ history.redo_stack # <<>> )
        => ( /\ history'.redo_stack = Front(history.redo_stack)
             /\ history'.undo_stack = Append(history.undo_stack, hist_arg')
             /\ hist_ret' = Some(Last(history.redo_stack))
             /\ history'.max_size = history.max_size ) ]_vars

\* redo(Snap(1)) has just taken Snap(2) off a redo stack of two entries.
C5_Witness ==
    /\ last_action = "redo"
    /\ hist_arg = Snap(1)
    /\ hist_ret = Some(Snap(2))
    /\ history.undo_stack = <<Snap(1)>>
    /\ history.redo_stack = <<Snap(0)>>

\* C6: History.push(snapshot) always leaves the redo stack empty and the pushed
\* snapshot on top of the undo stack, whatever the stacks held before, so
\* can_redo() is false after it.  (For the three edits that push, commit,
\* delete and drag start, the empty redo stack is a conjunct of C1, C10 and
\* C9.)
C6_PushClearsRedo ==
    [][ last_action' = "push"
        => ( /\ history'.redo_stack = <<>>
             /\ ~can_redo(history')
             /\ history'.undo_stack # <<>>
             /\ Last(history'.undo_stack) = hist_arg'
             /\ Len(history.undo_stack) < history.max_size
                    => Front(history'.undo_stack) = history.undo_stack ) ]_vars

\* A push has just discarded a non-empty redo stack.
C6_Witness ==
    /\ last_action = "push"
    /\ hist_cleared # <<>>
    /\ history.redo_stack = <<>>
    /\ Len(history.undo_stack) = 2
    /\ Last(history.undo_stack) = hist_arg

\* C7: History.undo on an empty undo stack returns none and leaves both stacks
\* unchanged, the supplied current state pushed nowhere; History.redo on an
\* empty redo stack returns none and leaves both stacks unchanged.
C7_EmptyIsNoOp ==
    [][ /\ ( last_action' = "undo" /\ history.undo_stack = <<>> )
           => ( hist_ret' = None /\ history' = history )
        /\ ( last_action' = "redo" /\ history.redo_stack = <<>> )
           => ( hist_ret' = None /\ history' = history ) ]_vars

\* undo(Snap(2)) has just returned none on an empty undo stack while the redo
\* stack holds an entry.
C7_Witness ==
    /\ last_action = "undo"
    /\ hist_arg = Snap(2)
    /\ hist_ret = None
    /\ history.undo_stack = <<>>
    /\ history.redo_stack = <<Snap(0)>>

\* The capacity run has undone until nothing was returned.
Drained == last_action = "undo" /\ IsNone(hist_ret)


\* C8: the undo stack never holds more than max_size snapshots and evicts the
\* oldest first: after Snap(1) .. Snap(k) are pushed, repeated undo returns
\* Snap(k), Snap(k-1), ... in reverse push order, exactly min(k, max_size) of
\* them, so with k = max_size + 1 the first-pushed snapshot is the one lost.
C8_CapEvictsOldest ==
    /\ Len(history.undo_stack) <= history.max_size
    /\ \A j \in 1..Len(hist_got) : hist_got[j] = Snap(Pushed - j + 1)
    /\ Drained => Len(hist_got) = Min(Pushed, history.max_size)
    /\ (Drained /\ Pushed > history.max_size)
           => \A j \in 1..Len(hist_got) : hist_got[j] # Snap(1)

\* 51 snapshots were pushed and 50 came back: Snap(51) first, Snap(2) last.
C8_Witness ==
    /\ Drained
    /\ Pushed = DefaultMaxSize + 1
    /\ Len(hist_got) = DefaultMaxSize
    /\ hist_got[1] = Snap(DefaultMaxSize + 1)
    /\ hist_got[DefaultMaxSize] = Snap(2)
    /\ history.undo_stack = <<>>

\* C9: a whole vertex drag is one undo step.  StartDraggingVertex pushes
\* exactly one snapshot, the pre-drag collection (and leaves the redo stack
\* empty); a DragVertex pushes nothing and leaves both history stacks as they
\* were; StopDragging pushes nothing and changes no annotation; and a single
\* undo after the drag restores the collection as it was before the drag
\* started.  (The drag is the StartDraggingVertex, the DragVertex events and
\* the StopDragging, no other event between them: drag_origin is set for
\* exactly that long.)
C9_DragIsOneUndoStep ==
    [][ /\ last_action' = "StartDraggingVertex"
           => ( /\ history'.undo_stack = Append(history.undo_stack, Annotations)
                /\ history'.redo_stack = <<>>
                /\ project' = project )
        /\ last_action' = "DragVertex"
           => ( /\ history'.undo_stack = history.undo_stack
                /\ history'.redo_stack = history.redo_stack )
        /\ last_action' = "StopDragging"
           => ( /\ history'.undo_stack = history.undo_stack
                /\ history'.redo_stack = history.redo_stack
                /\ project' = project )
        /\ ( /\ IsSome(drag_origin)
             /\ last_action \in DragSteps
             /\ last_action' = "Undo" )
           => ( /\ IsSome(project')
                /\ Annotations' = Unwrap(drag_origin)
                /\ Len(history'.undo_stack) = Len(history.undo_stack) - 1 ) ]_vars

\* An undo has just followed a finished drag that had moved a vertex: the
\* collection is the pre-drag one and the dragged one sits on the redo stack.
C9_Witness ==
    /\ last_action = "Undo"
    /\ IsSome(drag_origin)
    /\ dragging_vertex = None
    /\ IsSome(project)
    /\ Annotations = Unwrap(drag_origin)
    /\ history.redo_stack # <<>>
    /\ Last(history.redo_stack) # Annotations

\* C10: a delete (key, Edit menu or properties panel) with a valid selection
\* index i pushes a snapshot of the whole pre-delete collection (leaving the
\* redo stack empty), removes exactly element i keeping the order of the
\* others, clears the selection and leaves annotation_counter unchanged; with
\* no selection the delete changes nothing.
C10_DeleteSelected ==
    [][ /\ ( /\ last_action' \in DeleteTags
             /\ IsSome(selected_annotation)
             /\ IsSome(project)
             /\ Unwrap(selected_annotation) < Len(Annotations) )
           => LET i == Unwrap(selected_annotation)
              IN  /\ history'.undo_stack = Append(history.undo_stack, Annotations)
                  /\ history'.redo_stack = <<>>
                  /\ IsSome(project')
                  /\ Len(Annotations') = Len(Annotations) - 1
                  /\ \A j \in 1..Len(Annotations') :
                         Annotations'[j] = IF j <= i THEN Annotations[j]
                                           ELSE Annotations[j + 1]
                  /\ selected_annotation' = None
                  /\ annotation_counter' = annotation_counter
        /\ ( last_action' \in DeleteTags /\ IsNone(selected_annotation) )
           => UNCHANGED <<current_tool, project, selected_annotation,
                          image_texture, image_size, in_progress_annotation,
                          annotation_counter, dragging_vertex, history,
                          Loader>> ]_vars

\* The first of two annotations has just been deleted: the one left is the
\* second of the snapshot on top of the undo stack.
C10_Witness ==
    /\ last_action = "Delete"
    /\ IsSome(project)
    /\ Len(Annotations) = 1
    /\ selected_annotation = None
    /\ history.undo_stack # <<>>
    /\ Len(Last(history.undo_stack)) = 2
    /\ Annotations[1] = Last(history.undo_stack)[2]
    /\ annotation_counter = 2

\* C11: a controller undo or redo (key or menu) that obtains a snapshot
\* replaces the project's whole annotation collection by it (the media file
\* and frame size stay) and sets the selection to none; when the stack it pops
\* is empty, or no project is loaded, the project, the selection and both
\* history stacks are unchanged.
C11_UndoRedoInstall ==
    [][ /\ ( last_action' = "Undo" /\ IsSome(project) /\ history.undo_stack # <<>> )
           => ( /\ project' = WithAnnotations(Last(history.undo_stack))
                /\ selected_annotation' = None )
        /\ ( last_action' = "Redo" /\ IsSome(project) /\ history.redo_stack # <<>> )
           => ( /\ project' = WithAnnotations(Last(history.redo_stack))
                /\ selected_annotation' = None )
        /\ ( last_action' = "Undo" /\ (IsNone(project) \/ history.undo_stack = <<>>) )
           => UNCHANGED <<project, selected_annotation, history>>
        /\ ( last_action' = "Redo" /\ (IsNone(project) \/ history.redo_stack = <<>>) )
           => UNCHANGED <<project, selected_annotation, history>> ]_vars

\* An undo has come in the middle of a drag, whose start had selected the
\* dragged annotation: the selection is gone and the collection is the
\* pre-drag one, which differs from the one the undo replaced.
C11_Witness ==
    /\ last_action = "Undo"
    /\ IsSome(drag_origin)
    /\ IsSome(dragging_vertex)
    /\ selected_annotation = None
    /\ IsSome(project)
    /\ Annotations = Unwrap(drag_origin)
    /\ history.redo_stack # <<>>
    /\ Last(history.redo_stack) # Annotations

\* The 3-vertex polygon of the scenario as committed, and with vertex k (from
\* 0) dragged to P1.
Drawn3 ==
    [name |-> <<"region", 1>>, annotation_type |-> Polygon,
     vertices |-> <<P0, P0, P0>>]
Dragged3(k) == update_vertex(Drawn3, k, P1)

\* The history after the commit, the drag of vertex k and the delete, with
\* `done` undos made since.
AfterScenario(k, done) ==
    LET pushed == << <<>>, <<Drawn3>>, <<Dragged3(k)>> >>
        seen   == << <<>>, <<Dragged3(k)>>, <<Drawn3>>, <<>> >>
    IN  /\ history.undo_stack = SubSeq(pushed, 1, 3 - done)
        /\ history.redo_stack = SubSeq(seen, 1, done)
        /\ IsSome(project)
        /\ Annotations = seen[done + 1]

\* C12: undo is strictly last-in-first-out over the history-affecting
\* operations.  An operation that pushes leaves on top of the undo stack the
\* collection as it was just before it, the entries below untouched; an undo
\* takes exactly the top entry and installs it; nothing else changes the undo
\* stack.  So after committing a 3-vertex polygon, dragging one vertex and
\* deleting the annotation, the first undo yields the polygon with the
\* dragged position, the second the polygon as drawn, the third the empty
\* collection.
C12_UndoIsLifo ==
    [][ /\ Len(history'.undo_stack) > Len(history.undo_stack)
           => ( /\ IsSome(project)
                /\ history'.undo_stack = Append(history.undo_stack, Annotations) )
        /\ Len(history'.undo_stack) < Len(history.undo_stack)
           => ( /\ last_action' = "Undo"
                /\ history'.undo_stack = Front(history.undo_stack)
                /\ IsSome(project')
                /\ Annotations' = Last(history.undo_stack) )
        /\ Len(history'.undo_stack) = Len(history.undo_stack)
           => history'.undo_stack = history.undo_stack
        /\ \A k \in VtxIdx, done \in 0..2 :
              ( AfterScenario(k, done) /\ last_action' = "Undo" )
              => AfterScenario(k, done + 1)' ]_vars

\* The third undo after commit, drag of the second vertex and delete: the
\* collection is empty again and the redo stack holds, oldest first, what the
\* three undos replaced: the empty collection, the dragged polygon, the
\* polygon as drawn.
C12_Witness ==
    /\ last_action = "Undo"
    /\ AfterScenario(1, 3)
    /\ annotation_counter = 1

\* The recorded drag target no longer names a vertex of the collection.
StaleDrag ==
    /\ IsSome(dragging_vertex)
    /\ \/ IsNone(project)
       \/ Unwrap(dragging_vertex)[1] >= Len(Annotations)
       \/ Unwrap(dragging_vertex)[2] >=
              Len(At(Annotations, Unwrap(dragging_vertex)[1]).vertices)

\* The selection no longer names an annotation of the collection.
StaleSelection ==
    /\ IsSome(selected_annotation)
    /\ IsNone(project) \/ Unwrap(selected_annotation) >= Len(Annotations)

\* C13: index-based controller operations re-validate their index: a delete
\* whose selection index is not below the annotation count, and a DragVertex
\* whose recorded (annotation, vertex) is out of range, leave the project's
\* annotation collection and both history stacks unchanged.
C13_StaleIndexIsNoOp ==
    [][ /\ ( last_action' \in DeleteTags /\ StaleSelection )
           => ( project' = project /\ history' = history )
        /\ ( last_action' = "DragVertex" /\ StaleDrag )
           => ( project' = project /\ history' = history ) ]_vars

\* A DragVertex has been handled while the drag target, the first vertex of
\* the second annotation, was gone: a load that completed during the drag
\* installed a project of one annotation.
C13_Witness ==
    /\ last_action = "DragVertex"
    /\ dragging_vertex = Some(<<1, 0>>)
    /\ IsSome(project)
    /\ Len(Annotations) = 1
    /\ StaleDrag

\* C14: annotation_counter is monotonic: no controller event, the completion
\* of an image load or of an annotation import included, lowers its value.
C14_CounterMonotonic ==
    [][ annotation_counter' >= annotation_counter ]_vars

\* What a load installs: the project, the image, its size and the counter.
Installed == <<project, image_texture, image_size, annotation_counter>>

\* The worker of the load started last, while it is still running.
LatestWorkers == {w \in workers : w.chan = load_seq}

\* C15: at most one load is outstanding and a superseded load's result is
\* never installed.  The controller holds the receiver of the load started
\* last only; starting a load drops whatever the replaced channel held; the
\* completion of a superseded worker, early or late, changes nothing but the
\* set of running workers; the channel only ever receives the result of the
\* load started last, and the project, image, image size and counter change
\* only by installing that result.
C15_SupersededNeverInstalled ==
    [][ /\ IsSome(image_loader') => image_loader' = Some(load_seq')
        /\ IsSome(channel') => image_loader' = Some(load_seq')
        /\ Cardinality(LatestWorkers') <= 1
        /\ last_action' \in {"OpenImage", "LoadAnnotations"}
           => ( /\ load_seq' = load_seq + 1
                /\ channel' = None
                /\ Installed' = Installed )
        /\ \A w \in workers :
              ( workers' = workers \ {w} /\ w.chan # load_seq )
              => ( /\ last_action' = "WorkerSend"
                   /\ channel' = channel
                   /\ image_loader' = image_loader
                   /\ loading_message' = loading_message
                   /\ Installed' = Installed )
        /\ last_action' = "WorkerRead"
           => ( /\ channel' = channel
                /\ image_loader' = image_loader
                /\ loading_message' = loading_message
                /\ Installed' = Installed )
        /\ ( IsSome(channel') /\ channel' # channel )
           => \E w \in LatestWorkers :
                 /\ workers' = workers \ {w}
                 /\ channel' = Some(worker_result(w))
        /\ Installed' # Installed
           => ( /\ last_action' = "LoadInstalled"
                /\ IsSome(channel) /\ image_loader = Some(load_seq)
                /\ Unwrap(channel).ok
                /\ image_texture' = Some(Unwrap(channel).pixels)
                /\ project' = Unwrap(channel).project ) ]_vars

\* The image load started second has been installed (an empty project on
\* ok.png) while the superseded import of good.json, started first, is still
\* running.
C15_Witness ==
    /\ last_action = "LoadInstalled"
    /\ load_seq = 2
    /\ \E w \in workers : w.chan = 1 /\ w.job.path = "good.json"
    /\ image_loader = None
    /\ IsSome(project)
    /\ Unwrap(project).media_file = "ok.png"
    /\ Annotations = <<>>
    /\ annotation_counter = 0
    /\ image_texture = Some("ok.png")

\* The events update handles for a canvas action.
CanvasEvent ==
    \/ \E point \in ClickPoints : AddVertex(point)
    \/ FinishAnnotation
    \/ \E idx \in AnnIdx : SelectAnnotation(idx)
    \/ DeselectAnnotation
    \/ \E a \in AnnIdx, v \in VtxIdx : StartDraggingVertex(a, v)
    \/ \E point \in DragPoints : DragVertex(point)
    \/ StopDragging

\* C16: while a load is outstanding canvas interaction is suppressed: in a
\* state whose loading message is set no AddVertex, FinishAnnotation,
\* selection or drag event of the canvas can be handled; and the poll does
\* not block: with no result in the channel yet the frame goes on to its key
\* handling, and with a result there the poll takes it.
C16_LoadingSuppressesCanvas ==
    IsSome(loading_message) =>
        /\ ~ENABLED CanvasEvent
        /\ IsSome(image_loader)
        /\ IsNone(channel) => ENABLED KeyEscape
        /\ IsSome(channel) => ENABLED PollLoad

\* A second image is being opened while the first is shown, the Polygon tool
\* is active and an annotation is in progress: a click would add a vertex
\* were it not for the load.
C16_Witness ==
    /\ last_action = "OpenImage"
    /\ IsSome(loading_message)
    /\ IsSome(image_texture) /\ IsSome(image_size)
    /\ current_tool = "Polygon"
    /\ IsSome(in_progress_annotation)
    /\ vertex_count(Unwrap(in_progress_annotation)) = 2
    /\ ~ENABLED CanvasEvent

\* C17: a load that ends in an error result (an image that does not decode,
\* an annotation file that does not parse) leaves the project, its
\* annotations, the image, the image size, annotation_counter and the history
\* exactly as they were, like every other field but the loading mode, which
\* is cleared; no partial project is installed.
C17_FailedLoadKeepsState ==
    [][ /\ ~load_image_worker("bad.png").ok
        /\ ~import_worker("broken.json").ok
        /\ ( PollReady /\ ~Unwrap(channel).ok
             /\ last_action' \in {"LoadInstalled", "LoadFailed"} )
           => ( /\ last_action' = "LoadFailed"
                /\ UNCHANGED <<project, image_texture, image_size,
                               annotation_counter, history, current_tool,
                               selected_annotation, in_progress_annotation,
                               dragging_vertex>>
                /\ loading_message' = None
                /\ image_loader' = None ) ]_vars

\* A second load has just failed in a session that had a project of two
\* annotations, an image and an undo entry: all are still there.
C17_Witness ==
    /\ last_action = "LoadFailed"
    /\ load_seq = 2
    /\ loading_message = None
    /\ IsSome(project)
    /\ Len(Annotations) = 1
    /\ annotation_counter = 2
    /\ image_texture = Some("ok.png")
    /\ history.undo_stack # <<>>
    /\ Len(Last(history.undo_stack)) = 2

\* The import jobs whose annotation file parses while the image it names does
\* not exist.
MissingMedia ==
    {file \in AnnotationFiles :
        /\ parse_annotations(file.path).ok
        /\ ~Exists(parse_annotations(file.path).project_data.media_file)}

\* C18: when an annotation file imports successfully but the image it
\* references does not exist, the poll that receives the worker's result
\* installs the imported data as the current project, with no image, and the
\* condition is no more than a warning.
C18_MissingImageStillInstalls ==
    [][ ( /\ PollReady
          /\ last_action' \in {"LoadInstalled", "LoadFailed"}
          /\ Unwrap(channel).error = "Referenced image not found" )
        => /\ \E file \in MissingMedia :
                 project' = Some(parse_annotations(file.path).project_data)
           /\ image_texture' = None ]_vars

\* C20: JSON round trip.  For every project, import_json of the text that
\* export_json wrote returns a project, and it equals the exported one in
\* every field: media file, frame size, the annotations in order, each with
\* its name, kind and its vertices in order with the same coordinates.
C20_JsonRoundTrip ==
    IsSome(codec.ret) =>
        /\ codec.text = Some(export_json(Unwrap(codec.arg)))
        /\ Unwrap(codec.ret) = codec.arg

\* What the disk holds once `text` is written to `path`.
Written(path, text) ==
    {f \in disk : f.path # path} \cup {[path |-> path, text |-> text]}

\* C19: the format is chosen by the file extension alone.  An export to a
\* .json path writes the JSON text of the project and one to a .yaml or .yml
\* path its YAML text; under any other or no extension nothing is written.
\* The thread of an import reads a .json file with the JSON reader and a
\* .yaml or .yml file with the YAML reader, on the text the file holds when
\* the thread reads it (a part of the new text when an export is writing the
\* file at that moment), and sends the project so read or its error; under
\* any other or no extension the import is an error whatever the file
\* holds, and the poll that receives it leaves the project as it was.
C19_DispatchByExtension ==
    [][ /\ \A path \in ExportPaths :
              ( /\ last_action' = "ExportAnnotations"
                /\ ExportAnnotations(path)
                /\ IsSome(project) ) =>
                  disk' = IF extension(path) = Some("json")
                          THEN Written(path, export_json(Unwrap(project)))
                          ELSE IF extension(path) \in {Some("yaml"), Some("yml")}
                          THEN Written(path, export_yaml(Unwrap(project)))
                          ELSE disk
        /\ last_action' = "ExportAnnotations" =>
              \A w \in workers \ workers' :
                  LET ext == extension(w.job.path)
                      parsed == Unwrap((CHOOSE v \in workers' : v.chan = w.chan).parsed)
                  IN  /\ w.job.kind = "import" /\ IsNone(w.parsed)
                      /\ ext \in {Some("json"), Some("yaml"), Some("yml")}
                      /\ \E f \in disk' :
                            /\ f.path = w.job.path
                            /\ \E torn \in torn_texts(f.text) :
                                  parsed = parsed_by(ext, IF ext = Some("json")
                                                          THEN import_json(torn)
                                                          ELSE import_yaml(torn))
        /\ \A w \in workers :
              ( last_action' = "WorkerRead" /\ WorkerRead(w) ) =>
                  LET text == Unwrap(read_to_string(w.job.path))
                      ext == extension(w.job.path)
                      data == IF ext = Some("json") THEN import_json(text)
                              ELSE import_yaml(text)
                      parsed == Unwrap((CHOOSE v \in workers' : v.chan = w.chan).parsed)
                  IN  IF ext \in {Some("json"), Some("yaml"), Some("yml")}
                      THEN /\ parsed.ok = IsSome(data)
                           /\ parsed.ok => parsed.project_data = Unwrap(data)
                      ELSE /\ ~parsed.ok
                           /\ parsed.error = "Unsupported file extension"
        /\ \A w \in workers :
              ( /\ last_action' = "WorkerSend"
                /\ WorkerSend(w)
                /\ w.job.kind = "import"
                /\ image_loader = Some(w.chan) ) =>
                  LET parsed == Unwrap(w.parsed)
                      result == Unwrap(channel')
                  IN  /\ ~parsed.ok => ( ~result.ok /\ result.error = parsed.error )
                      /\ result.ok => result.project = Some(parsed.project_data)
                      /\ ( /\ parsed.ok
                           /\ Exists(parsed.project_data.media_file)
                           /\ IsSome(load_image(parsed.project_data.media_file)) )
                         => result.ok
        /\ ( /\ PollReady
             /\ last_action' = "LoadFailed"
             /\ Unwrap(channel).error = "Unsupported file extension" )
           => UNCHANGED <<project, image_texture, image_size, annotation_counter>>
      ]_vars

\* A project read from a YAML file has been exported as JSON and as YAML,
\* and the thread of a later import has just refused a file for its
\* extension.
C19_Witness ==
    /\ last_action = "WorkerSend"
    /\ IsSome(channel)
    /\ Unwrap(channel).error = "Unsupported file extension"
    /\ Annotations = <<FileLine2>>
    /\ {f.path : f \in disk} = {"out.json", "out.yml"}
    /\ \E f \in disk : f.path = "out.json" /\ import_json(f.text) = project
    /\ \E f \in disk : f.path = "out.yml" /\ f.text = export_yaml(Unwrap(project))
    /\ load_seq = 2

\* C21: YAML round trip.  For every project whose annotations each have at
\* least one vertex, import_yaml of the text that export_yaml wrote returns
\* a project, and it equals the exported one in every field.
C21_YamlRoundTrip ==
    ( /\ IsSome(codec.ret)
      /\ Unwrap(codec.arg).annotations # <<>>
      /\ \A k \in 1..Len(Unwrap(codec.arg).annotations) :
             vertex_count(Unwrap(codec.arg).annotations[k]) >= 1 )
    => /\ codec.text = Some(export_yaml(Unwrap(codec.arg)))
       /\ Unwrap(codec.ret) = codec.arg

\* The line "vertices: [[x, y], ...]" of the vertices, at indentation n.
inline_vertices(vertices, n) ==
    TextLine(n, yaml_key("vertices") \o <<Punct("[")>>
                \o flow_vertices([j \in 1..Len(vertices) |->
                                    <<Punct("["), format_f64(vertices[j].x), Punct(","),
                                      format_f64(vertices[j].y), Punct("]")>>])
                \o <<Punct("]")>>)

\* A line of a block sequence of points: "- x: .." or "y: ..".
is_coordinate_line(line) ==
    \E i \in 1..Len(line.toks) :
        line.toks[i].k = "plain" /\ line.toks[i].s \in {"x", "y"}

\* C22: the YAML text export_yaml writes holds, for each annotation that has
\* vertices, the one line "vertices: [[x, y], ...]" with a pair per vertex
\* in vertex order, and no line of a block sequence of coordinates.
C22_VerticesInline ==
    IsSome(codec.text) =>
        LET text == Unwrap(codec.text)
            anns == Unwrap(codec.arg).annotations
        IN  /\ \A k \in 1..Len(anns) :
                  anns[k].vertices # <<>> =>
                      \E l \in 1..Len(text) :
                          text[l] = inline_vertices(anns[k].vertices, text[l].indent)
            /\ \A l \in 1..Len(text) : ~is_coordinate_line(text[l])

\* The annotation a first click with the current tool starts: "region N" or
\* "line N" with N = annotation_counter + 1, of the tool's kind, holding the
\* clicked point alone.
FirstClick(point) ==
    [name |-> <<IF current_tool = "Polygon" THEN "region" ELSE "line",
                annotation_counter + 1>>,
     annotation_type |-> IF current_tool = "Polygon" THEN Polygon ELSE Line,
     vertices |-> <<point>>]

\* C23: choosing a tool leaves the in-progress annotation as it is (none
\* stays none).  The first AddVertex with the Polygon or Line tool and
\* nothing in progress creates the in-progress annotation of the tool's
\* kind, named "region N" / "line N" with N = annotation_counter + 1, with
\* exactly the clicked vertex, and annotation_counter is unchanged.  Every
\* further AddVertex appends one vertex and keeps name and kind.  No other
\* step creates an in-progress annotation, and with the Select tool
\* start_annotation creates none.
C23_FirstClickStarts ==
    [][ /\ last_action' = "SelectTool" =>
               in_progress_annotation' = in_progress_annotation
        /\ (last_action' = "AddVertex" /\ IsNone(in_progress_annotation)) =>
               /\ current_tool \in {"Polygon", "Line"}
               /\ \E point \in ClickPoints :
                      in_progress_annotation' = Some(FirstClick(point))
               /\ annotation_counter' = annotation_counter
        /\ (last_action' = "AddVertex" /\ IsSome(in_progress_annotation)) =>
               /\ IsSome(in_progress_annotation')
               /\ \E point \in ClickPoints :
                      Unwrap(in_progress_annotation') =
                          [Unwrap(in_progress_annotation) EXCEPT
                             !.vertices = Append(@, point)]
               /\ annotation_counter' = annotation_counter
        /\ (IsNone(in_progress_annotation) /\ IsSome(in_progress_annotation')) =>
               last_action' = "AddVertex" /\ current_tool # "Select"
        /\ (current_tool = "Select" /\ IsNone(in_progress_annotation)) =>
               start_annotation = None
      ]_vars

\* A second annotation has just been started with the Line tool: one
\* annotation is committed, the counter is 1 and the new one is "line 2".
C23_Witness ==
    /\ last_action = "AddVertex"
    /\ current_tool = "Line"
    /\ annotation_counter = 1
    /\ Len(Annotations) = 1
    /\ IsSome(in_progress_annotation)
    /\ Unwrap(in_progress_annotation).name = <<"line", 2>>
    /\ Unwrap(in_progress_annotation).annotation_type = Line
    /\ vertex_count(Unwrap(in_progress_annotation)) = 1

\* C24: Escape, when it is not the finish of a Line (the Line tool with an
\* annotation in progress), discards the in-progress annotation whatever
\* its vertex count and leaves the project with its annotation collection,
\* annotation_counter, the undo stack and the redo stack as they were.
C24_CancelDiscards ==
    [][ ( /\ KeyEscape
          /\ ~(current_tool = "Line" /\ IsSome(in_progress_annotation)) )
        => /\ in_progress_annotation' = None
           /\ last_action' = "Cancel"
           /\ project' = project
           /\ annotation_counter' = annotation_counter
           /\ history'.undo_stack = history.undo_stack
           /\ history'.redo_stack = history.redo_stack
      ]_vars

\* Escape has just cancelled with the Polygon tool, after two commits and
\* one undo: one annotation is left, the counter is 2 and both stacks hold
\* a snapshot.
C24_Witness ==
    /\ last_action = "Cancel"
    /\ current_tool = "Polygon"
    /\ IsNone(in_progress_annotation)
    /\ Len(Annotations) = 1
    /\ annotation_counter = 2
    /\ Len(history.undo_stack) = 1
    /\ Len(history.redo_stack) = 1

\* The steps in which finish_annotation took an annotation in progress.
Finishing == IsSome(in_progress_annotation) /\ last_action' \in {"FinishCommit", "FinishDiscard"}

\* C25: finish triggers by kind.  An in-progress Polygon is finished only by
\* the canvas FinishAnnotation action, the double click with the Polygon
\* tool, and an in-progress Line only by Escape with the Line tool active.
\* Escape in any other situation cancels and deselects.  Both paths pass
\* the same gate: the annotation is committed exactly when it has at least
\* two vertices.
C25_FinishByKind ==
    [][ /\ (Finishing /\ Unwrap(in_progress_annotation).annotation_type = Polygon)
               => (FinishAnnotation /\ current_tool = "Polygon")
        /\ (Finishing /\ Unwrap(in_progress_annotation).annotation_type = Line)
               => (KeyEscape /\ current_tool = "Line")
        /\ (KeyEscape /\ ~(current_tool = "Line" /\ IsSome(in_progress_annotation)))
               => /\ last_action' = "Cancel"
                  /\ in_progress_annotation' = None
                  /\ selected_annotation' = None
                  /\ project' = project
        /\ Finishing =>
               /\ in_progress_annotation' = None
               /\ (last_action' = "FinishCommit")
                      = (vertex_count(Unwrap(in_progress_annotation)) >= 2)
      ]_vars

\* The annotations written in the annotation files that load, in file order.
FileAnnotations(path) ==
    IF path = "good.json" THEN <<FileLine2, FilePolygon2>>
    ELSE IF path = "short.json" THEN <<FilePolygon1>>
    ELSE <<>>

\* C26: a load that completes successfully replaces the project as a whole.
\* The result of an open-image is a project that names the image, with its
\* decoded width and height and no annotation; the result of an import
\* holds exactly the annotations of the file, in file order.  The poll that
\* receives a successful result installs that project as it is, so no
\* annotation of the previous project is left, with the decoded image size,
\* and annotation_counter is the length of the new collection.
C26_LoadReplacesProject ==
    [][ /\ \A w \in workers :
              ( /\ WorkerSend(w)
                /\ image_loader = Some(w.chan)
                /\ Unwrap(channel').ok ) =>
                  LET result == Unwrap(channel')
                  IN  /\ IsSome(result.project)
                      /\ IF w.job.kind = "image"
                         THEN /\ Unwrap(result.project) =
                                    [media_file |-> w.job.path,
                                     frame_width |-> result.width,
                                     frame_height |-> result.height,
                                     annotations |-> <<>>]
                              /\ Some(<<result.width, result.height>>)
                                    = load_image(w.job.path)
                         ELSE /\ w.job.path \in {"good.json", "short.json"}
                              /\ Unwrap(result.project).annotations
                                    = FileAnnotations(w.job.path)
        /\ (PollReady /\ Unwrap(channel).ok /\ PollLoad) =>
              /\ last_action' = "LoadInstalled"
              /\ project' = Unwrap(channel).project
              /\ image_size' = Some(<<Unwrap(channel).width, Unwrap(channel).height>>)
              /\ annotation_counter' = Len(Unwrap(project').annotations)
      ]_vars

\* A second load has just completed: the project of two annotations read
\* from good.json, of which the undo stack still holds a snapshot, has been
\* replaced by the one annotation of short.json.
C26_Witness ==
    /\ last_action = "LoadInstalled"
    /\ load_seq = 2
    /\ Annotations = FileAnnotations("short.json")
    /\ annotation_counter = 1
    /\ history.undo_stack # <<>>
    /\ Len(Last(history.undo_stack)) = 2
    /\ image_size = Some(<<2, 1>>)

\* The squared distance of vertex index (from 0) of the driver's annotation
\* to the point of the last call.
ProbeDistance(index) ==
    distance_squared(Unwrap(probe.annotation).vertices[index + 1], Unwrap(probe.point))

\* The indices of the driver's annotation.
ProbeIndices == 0..(vertex_count(Unwrap(probe.annotation)) - 1)

\* index is the lowest of the indices in S at the least distance.
FirstNearestIn(S, index) ==
    /\ index \in S
    /\ \A j \in S : f64_le(ProbeDistance(index), ProbeDistance(j))
    /\ \A j \in S : j < index => f64_gt(ProbeDistance(j), ProbeDistance(index))

\* C27: find_nearest_vertex returns None for an annotation without
\* vertices; otherwise it returns the index of a vertex at the least squared
\* distance to the point, the lowest such index when several vertices are
\* equally near.  The squared distance is the f64 that distance_squared
\* returns.  For (0,0), (1,0), (1,1) and the point (0.95, 0.05) it returns
\* 1; for (0.01,0), (0.03,0) and the point (0.02, 0) it returns 1 as well,
\* the f64 nearest to 0.03 being nearer to the one nearest to 0.02.
C27_NearestVertex ==
    probe.op = "find_nearest_vertex" =>
        /\ ProbeIndices = {} => probe.found = None
        /\ ProbeIndices # {} =>
               /\ IsSome(probe.found)
               /\ FirstNearestIn(ProbeIndices, Unwrap(probe.found))
        /\ ( /\ Unwrap(probe.annotation).vertices = NearestTestVertices
             /\ probe.point = Some(NearestTestPoint) ) => probe.found = Some(1)
        /\ ( /\ Unwrap(probe.annotation).vertices = <<Hundredths(1, 0), Hundredths(3, 0)>>
             /\ probe.point = Some(Hundredths(2, 0)) ) => probe.found = Some(1)

\* The search at (0.02, 0.01) of (0.01, 0), (0.03, 0.02), (0.03, 0): the last
\* two are equally near, at a squared distance that is rounded, the first
\* is farther, and index 1 has been returned.
C27_Witness ==
    /\ probe.op = "find_nearest_vertex"
    /\ probe.point = Some(Hundredths(2, 1))
    /\ Unwrap(probe.annotation).vertices =
           <<Hundredths(1, 0), Hundredths(3, 2), Hundredths(3, 0)>>
    /\ ProbeDistance(1) = ProbeDistance(2)
    /\ f64_lt(ProbeDistance(1), ProbeDistance(0))
    /\ ProbeDistance(1) # f64_literal(2, 4)
    /\ probe.found = Some(1)

\* The indices of the vertices within the threshold of the last call,
\* the boundary included.
ProbeQualifying ==
    {j \in ProbeIndices : f64_le(ProbeDistance(j), threshold_sq(probe.threshold))}

\* C28: find_vertex_within_threshold returns None exactly when no vertex
\* has a squared distance to the point of at most threshold * threshold;
\* otherwise it returns the index of the nearest of the vertices within the
\* threshold, the lowest index among equally near ones, and that index is
\* what find_nearest_vertex returns for the same point.  The squared
\* distance and the squared threshold are the f64 the method computes: for
\* (0.01, 0), the point (0.07, 0) and the threshold 0.06 it returns None,
\* the difference of the two f64 being above the f64 nearest to 0.06.
C28_WithinThreshold ==
    probe.op = "find_vertex_within_threshold" =>
        /\ (probe.found = None) = (ProbeQualifying = {})
        /\ IsSome(probe.found) =>
               /\ FirstNearestIn(ProbeQualifying, Unwrap(probe.found))
               /\ probe.found =
                      find_nearest_vertex(Unwrap(probe.annotation), Unwrap(probe.point))
        /\ ( /\ Unwrap(probe.annotation).vertices = <<Hundredths(1, 0)>>
             /\ probe.point = Some(Hundredths(7, 0))
             /\ probe.threshold = f64_literal(6, 2) ) => probe.found = None

\* The search at (0.02, 0) with threshold 0.01 of (0.01, 0), (0.03, 0) and
\* (0.03, 0.02): the first is exactly at the threshold, the second within
\* it, the third beyond it, and index 1 has been returned.
C28_Witness ==
    /\ probe.op = "find_vertex_within_threshold"
    /\ probe.point = Some(Hundredths(2, 0))
    /\ probe.threshold = f64_literal(1, 2)
    /\ Unwrap(probe.annotation).vertices =
           <<Hundredths(1, 0), Hundredths(3, 0), Hundredths(3, 2)>>
    /\ ProbeQualifying = {0, 1}
    /\ ProbeDistance(0) = threshold_sq(probe.threshold)
    /\ f64_lt(ProbeDistance(1), ProbeDistance(0))
    /\ probe.found = Some(1)

\* C29: update_vertex and remove_vertex with an index at or beyond the
\* vertex count return false and leave the vertices as they were.  With an
\* index in range update_vertex returns true, puts the new position at
\* that index and leaves the length and every other vertex unchanged;
\* remove_vertex returns true, shortens the sequence by exactly one and
\* keeps the other vertices in their order.  Name and kind are untouched.
C29_VertexBounds ==
    [][ /\ \A index \in 0..MaxProbeVertices, point \in ProbePoints :
              ProbeUpdateVertex(index, point) =>
                  LET old == Unwrap(probe.annotation).vertices
                      new == Unwrap(probe'.annotation).vertices
                  IN  /\ probe'.ok = (index < Len(old))
                      /\ Len(new) = Len(old)
                      /\ \A j \in 1..Len(old) :
                             new[j] = IF j = index + 1 THEN point ELSE old[j]
                      /\ Unwrap(probe'.annotation).name = Unwrap(probe.annotation).name
                      /\ Unwrap(probe'.annotation).annotation_type = probe.kind
        /\ \A index \in 0..MaxProbeVertices :
              ProbeRemoveVertex(index) =>
                  LET old == Unwrap(probe.annotation).vertices
                      new == Unwrap(probe'.annotation).vertices
                  IN  /\ probe'.ok = (index < Len(old))
                      /\ ~probe'.ok => new = old
                      /\ probe'.ok =>
                             /\ Len(new) = Len(old) - 1
                             /\ \A j \in 1..Len(new) :
                                    new[j] = IF j <= index THEN old[j] ELSE old[j + 1]
                      /\ Unwrap(probe'.annotation).name = Unwrap(probe.annotation).name
                      /\ Unwrap(probe'.annotation).annotation_type = probe.kind
      ]_vars

\* remove_vertex(1) has just returned true on three vertices, as in
\* tests::test_annotation_remove_vertex: (0, 0) and (1, 1) are left.
C29_Witness ==
    /\ probe.op = "remove_vertex"
    /\ probe.index = 1
    /\ probe.ok
    /\ Unwrap(probe.annotation).vertices =
           <<Hundredths(0, 0), Hundredths(100, 100)>>

\* C30: after Annotation::new and n calls of add_vertex and no other
\* mutation, vertex_count is n and the vertices are the points given, in
\* call order; is_closed is true exactly when the annotation was made a
\* Polygon, whatever the number of vertices, zero included.
C30_CountAndClosed ==
    IsSome(probe.annotation) =>
        /\ probe.adds_only =>
               /\ vertex_count(Unwrap(probe.annotation)) = Len(probe.added)
               /\ Unwrap(probe.annotation).vertices = probe.added
        /\ is_closed(Unwrap(probe.annotation)) = (probe.kind = Polygon)

\* Three different points have been added to a new Line, the last one just
\* now; a Polygon without any vertex is covered by the formula as well.
C30_Witness ==
    /\ probe.op = "add_vertex"
    /\ probe.adds_only
    /\ probe.kind = Line
    /\ vertex_count(Unwrap(probe.annotation)) = 3
    /\ probe.added[1] # probe.added[2]
    /\ probe.added[2] # probe.added[3]
    /\ ~is_closed(Unwrap(probe.annotation))

\* C31: from StartDraggingVertex(a, v) to StopDragging a DragVertex only
\* modifies vertex v of the annotation that was at index a when the drag
\* began, whatever other events came in between: the collection keeps its
\* length, and an annotation that a DragVertex changes is that annotation
\* and differs from before in vertex v alone.
C31_DragTouchesOnlyItsTarget ==
    [][ last_action' = "DragVertex" =>
            /\ Len(Annotations') = Len(Annotations)
            /\ \A k \in 1..Len(Annotations) :
                   Annotations'[k] # Annotations[k] =>
                       /\ IsSome(dragging_vertex)
                       /\ drag_target = Some(Annotations[k].name)
                       /\ Annotations'[k] =
                              update_vertex(Annotations[k], Unwrap(dragging_vertex)[2],
                                            At(Annotations'[k].vertices,
                                               Unwrap(dragging_vertex)[2]))
      ]_vars

\* C32: history does not leak across the replacement of the project.  When
\* a load completes and installs a new project, the undo and the redo
\* stack hold no snapshot taken from the previous project, so no undo or
\* redo can put a collection of the previous project into the new one.
C32_HistoryDoesNotLeak ==
    [][ (last_action' = "LoadInstalled" /\ IsSome(project)) =>
            /\ history'.undo_stack = <<>>
            /\ history'.redo_stack = <<>>
      ]_vars

\* C33: transient controller state does not survive the replacement of the
\* project.  When a load completes and installs a new project, the
\* in-progress annotation, the selection and the drag target are all none.
C33_TransientStateReset ==
    [][ last_action' = "LoadInstalled" =>
            /\ in_progress_annotation' = None
            /\ selected_annotation' = None
            /\ dragging_vertex' = None
      ]_vars

\* C34: whenever an annotation is in progress its kind is that of the
\* current tool (Polygon with the Polygon tool, Line with the Line tool)
\* and the current tool is not Select.
C34_KindMatchesTool ==
    IsSome(in_progress_annotation) =>
        \/ /\ current_tool = "Polygon"
           /\ Unwrap(in_progress_annotation).annotation_type = Polygon
        \/ /\ current_tool = "Line"
           /\ Unwrap(in_progress_annotation).annotation_type = Line

\* C35: while a load is outstanding no user event changes the project's
\* annotation collection or the history stacks; only the poll that
\* observes the load result does.
C35_LoadingFreezesEdits ==
    [][ ( /\ IsSome(loading_message)
          /\ last_action' \notin {"LoadInstalled", "LoadFailed"} )
        => /\ project' = project
           /\ history'.undo_stack = history.undo_stack
           /\ history'.redo_stack = history.redo_stack
      ]_vars

\* C36: in every reachable state the undo stack and the redo stack together hold
\* at most max_size snapshots, hence the undo stack alone holds at most max_size,
\* although History::redo appends to the undo stack without testing the cap.
C36_StacksWithinCap ==
    /\ Len(history.undo_stack) + Len(history.redo_stack) <= history.max_size
    /\ Len(history.undo_stack) <= history.max_size
    /\ history.max_size = DefaultMaxSize

\* A redo has just refilled the undo stack to max_size entries.
C36_Witness ==
    /\ last_action = "redo"
    /\ IsSome(hist_ret)
    /\ Len(history.undo_stack) = history.max_size

\* The collection and the two stacks are those a remembered step started from.
BackAt(from) ==
    /\ Annotations = from.annotations
    /\ history.undo_stack = from.undo_stack
    /\ history.redo_stack = from.redo_stack

\* C37: an undo from a state with a non-empty undo stack, immediately followed by
\* a redo, leaves the annotation collection, the undo stack and the redo stack as
\* they were before the undo; and so does a redo from a state with a non-empty
\* redo stack immediately followed by an undo.
C37_UndoRedoInverse ==
    ( Len(trail) = 2 /\ trail[1].op # trail[2].op ) => BackAt(trail[1])

\* An undo that changed the collection has just been reverted by a redo, and in
\* another run a redo by an undo.
C37_Witness ==
    /\ Len(trail) = 2
    /\ trail[1].op = "Undo" /\ trail[2].op = "Redo"
    /\ trail[2].annotations # trail[1].annotations
    /\ trail[1].redo_stack # <<>>
    /\ last_action = "Redo"

\* The load numbered n has been observed by the poll and loading mode is over.
Observed(n) ==
    /\ load_seq = n
    /\ last_action \in {"LoadInstalled", "LoadFailed"}
    /\ IsNone(image_loader) /\ IsNone(channel) /\ IsNone(loading_message)
    /\ CanvasShown

\* C39: loading mode always ends.  Under fairness of the background threads and
\* of the poll in update, every started load is either superseded by a later
\* load or eventually observed by the poll, and then the receiver, the result and
\* the loading message are cleared and the canvas is shown again; and the loading
\* message is set exactly when a receiver is held.
C39_LoadingEnds ==
    /\ [](IsSome(loading_message) <=> IsSome(image_loader))
    /\ \A n \in 1..(MaxLoads + 1) :
           (image_loader = Some(n)) ~> (load_seq > n \/ Observed(n))

\* The second load, started while the first was still running, has been
\* observed: loading mode is over and the first thread has not finished yet.
C39_Witness ==
    /\ Observed(2)
    /\ \E w \in workers : w.chan = 1

\* The tokens are found in toks, one after the other.
OccursIn(val, toks) ==
    \E at \in 1..(Len(toks) - Len(val) + 1) : SubSeq(toks, at, at + Len(val) - 1) = val

\* The line is in the output as it was, or as the start of a line that goes on
\* with an inline list, or its coordinate value, the last thing written on it,
\* is in an inline list of the output.
KeptIn(line, out) ==
    \E j \in 1..Len(out) :
        \/ out[j] = line
        \/ /\ is_vertices_line(line)
           /\ out[j].indent = line.indent
           /\ Len(out[j].toks) > Len(line.toks)
           /\ SubSeq(out[j].toks, 1, Len(line.toks)) = line.toks
        \/ /\ starts_with_dash(line)
           /\ OccursIn(<<Punct("[")>>, out[j].toks)
           /\ OccursIn(<<Last(line.toks)>>, out[j].toks)

\* C40: convert_vertices_to_flow_style is total and lossless on any text: it
\* returns for every sequence of lines, an item that starts with "- -" but not
\* with "- - " included, and every line of the input is in the output unchanged
\* or has its coordinate value in the inline list written.
C40_ConverterTotalLossless ==
    last_action = "convert" =>
        /\ codec.ret = Some("returned")
        /\ \A k \in 1..Len(Unwrap(codec.arg)) :
               KeptIn(Unwrap(codec.arg)[k], Unwrap(codec.text))

====
